---- MODULE Spec2Model ----
(***************************************************************************)
(* A model of the three account-abstraction clients of this repository     *)
(* (01-simple, 02-paymaster, 03-social), of the byte strings, digests and  *)
(* signatures they build, and of the contracts that check them.            *)
(*                                                                         *)
(* Byte strings are sequences of chunks <<tag, width, payload>>: a chunk   *)
(* is a run of `width` bytes whose content is named by tag and payload.    *)
(* keccak256 and ECDSA are ideal: a digest is the chunk that names its     *)
(* pre-image, a signature names the key and the digest that was signed.    *)
(* Two byte strings are equal exactly when their chunk sequences are.      *)
(***************************************************************************)
EXTENDS Integers, Sequences, FiniteSets, TLC

(* ------------------------------------------------------------------ *)
(* Bounds of the model                                                 *)
(* ------------------------------------------------------------------ *)

\* The EntryPoint nonce of the account is read in 0..MaxNonce.
MaxNonce == 2

\* waitForReceipt issues at most MaxPolls queries in the model.
MaxPolls == 4

\* Runs of a pipeline (two clicks of sendOp, two invocations of a script).
RunIds == {1, 2}

(* ------------------------------------------------------------------ *)
(* Widths fixed by the contracts                                       *)
(* ------------------------------------------------------------------ *)

AddressWidth == 20
WordWidth == 32
SigWidth == 65
PrefixWidth == 26
HexBase == 16
DecBase == 10

(* ------------------------------------------------------------------ *)
(* Byte strings                                                        *)
(* ------------------------------------------------------------------ *)

EmptyBytes == << >>

RECURSIVE ByteLen(_)
ByteLen(b) == IF Len(b) = 0 THEN 0 ELSE Head(b)[2] + ByteLen(Tail(b))

\* The bytes b[from:to] when the cut falls on chunk boundaries; the chunks
\* that lie inside the window.
RECURSIVE SliceFrom(_, _, _)
SliceFrom(b, from, to) ==
    IF Len(b) = 0 \/ to <= 0 THEN EmptyBytes
    ELSE IF from > 0 THEN SliceFrom(Tail(b), from - Head(b)[2], to - Head(b)[2])
    ELSE <<Head(b)>> \o SliceFrom(Tail(b), 0, to - Head(b)[2])

\* Number of digits of n in the given base (1 for 0).
RECURSIVE NumDigits(_, _)
NumDigits(n, base) == IF n < base THEN 1 ELSE 1 + NumDigits(n \div base, base)

\* The character "-" in a digit string: no hexadecimal digit.
MinusSign == 0 - 1

\* BigInt(v).toString(16): the hexadecimal digits of v, most significant
\* first, without leading zeros ("0" for 0), after a "-" when v is negative.
RECURSIVE toString16(_)
toString16(n) ==
    IF n < 0 THEN <<MinusSign>> \o toString16(0 - n)
    ELSE IF n < HexBase THEN <<n>>
    ELSE Append(toString16(n \div HexBase), n % HexBase)

toHex(v) == toString16(v)

\* The strings BigInt("0x...") accepts: hexadecimal digits only.
IsHexDigits(digits) == \A i \in 1..Len(digits) : digits[i] \in 0..(HexBase - 1)

\* BigInt("0x..."): the value of a hexadecimal digit string (it throws on
\* any other string).
RECURSIVE BigInt(_)
BigInt(digits) ==
    IF Len(digits) = 0 THEN 0
    ELSE BigInt(SubSeq(digits, 1, Len(digits) - 1)) * HexBase + digits[Len(digits)]

(* ------------------------------------------------------------------ *)
(* Addresses and keys                                                  *)
(* ------------------------------------------------------------------ *)

\* Well-formed private keys, and one malformed key string.
Keys == {"k1", "k2"}
BadKey == "bad"
\* A key setting that does not start with 0x.
UnprefixedKey == "nohex"
NoKey == "none"

\* privateKeyToAccount(pk).address
AddressOf(pk) == <<"eoa", pk>>

ZeroAddress == <<"zero", "0">>

\* Deployed contracts' addresses, as configured.
EntryPointAddr == <<"contract", "entryPoint">>
LogicAddr == <<"contract", "demoLogic">>
FactoryAddr == <<"contract", "accountFactory">>
PaymasterAddr == <<"contract", "demoPaymaster">>
SimpleAccountAddr == <<"contract", "demoAccount">>

(* ------------------------------------------------------------------ *)
(* encodePacked / abi.encodePacked, keccak256                          *)
(* ------------------------------------------------------------------ *)

PackAddress(a) == << <<"address", AddressWidth, a>> >>
PackUint256(n) == << <<"uint256", WordWidth, <<n>>>> >>
PackBytes32(h) == << h >>
PackBytes(b) == b

\* A digest: the 32-byte chunk naming the bytes that were hashed.
keccak256(b) == <<"keccak256", WordWidth, b>>

(* ------------------------------------------------------------------ *)
(* encodeFunctionData                                                  *)
(* ------------------------------------------------------------------ *)

\* selector ++ ABI-encoded arguments: one chunk naming the function and its
\* arguments, as wide as the selector and `words` 32-byte words.
encodeFunctionData(fn, args, words) == << <<"calldata", 4 + WordWidth * words, <<fn, args>>>> >>

encodeIncrementCall == encodeFunctionData("increment", << >>, 0)

\* execute(address target, uint256 value, bytes data): three head words, the
\* length word and the data padded to one word.
encodeExecute(target, value, data) ==
    encodeFunctionData("execute", <<target, value, data>>, 5)

(* ------------------------------------------------------------------ *)
(* Signing (viem signMessage) and recovery (ecrecover)                 *)
(* ------------------------------------------------------------------ *)

\* "\x19Ethereum Signed Message:\n" followed by the decimal length.
PersonalPrefix(n) == << <<"text", PrefixWidth + NumDigits(n, DecBase), <<n>>>> >>

\* viem hashMessage({raw}): keccak256(prefix ++ decimal size of raw ++ raw).
hashMessage(raw) == keccak256(PersonalPrefix(ByteLen(raw)) \o raw)

\* ECDSA over a 32-byte digest: r ++ s ++ v, 65 bytes.
ecsign(pk, digest) ==
    << <<"sig_r", WordWidth, <<pk, digest>>>>,
       <<"sig_s", WordWidth, <<pk, digest>>>>,
       <<"sig_v", SigWidth - 2 * WordWidth, <<pk, digest>>>> >>

\* account.signMessage({message: {raw}}) of the account of key pk.
signMessage(pk, raw) == ecsign(pk, hashMessage(raw))

\* ecrecover(digest, v, r, s): the signer's address when (v, r, s) is a
\* signature of digest, and no usable address otherwise.
ecrecover(digest, v, r, s) ==
    IF /\ r[1] = "sig_r" /\ s[1] = "sig_s" /\ v[1] = "sig_v"
       /\ r[3] = s[3] /\ s[3] = v[3]
       /\ r[3][2] = digest
    THEN AddressOf(r[3][1])
    ELSE ZeroAddress

(* ------------------------------------------------------------------ *)
(* User operations                                                     *)
(* ------------------------------------------------------------------ *)

\* A hex string that is not hexadecimal at all ("undefined").
NotHex(text) == << <<"nothex", 0, <<text>>>> >>

\* The hex string of an address of `width` bytes.
AddressHex(a, width) == << <<"address", width, a>> >>

\* toEntryPointUserOp, and the relay's decoding of the operation it is sent:
\* the numeric fields from hex strings to integers.
toEntryPointUserOp(op) ==
    [sender |-> op.sender,
     nonce |-> BigInt(op.nonce),
     initCode |-> op.initCode,
     callData |-> op.callData,
     callGasLimit |-> BigInt(op.callGasLimit),
     verificationGasLimit |-> BigInt(op.verificationGasLimit),
     preVerificationGas |-> BigInt(op.preVerificationGas),
     maxFeePerGas |-> BigInt(op.maxFeePerGas),
     maxPriorityFeePerGas |-> BigInt(op.maxPriorityFeePerGas),
     paymasterAndData |-> op.paymasterAndData,
     signature |-> op.signature]

\* buildUserOperation of the 01-simple and 02-paymaster clients.
buildUserOperation(sender, nonce, callData, maxFeePerGas, maxPriorityFeePerGas) ==
    [sender |-> sender,
     nonce |-> toHex(nonce),
     initCode |-> EmptyBytes,
     callData |-> callData,
     callGasLimit |-> toHex(250000),
     verificationGasLimit |-> toHex(250000),
     preVerificationGas |-> toHex(50000),
     maxFeePerGas |-> toHex(maxFeePerGas),
     maxPriorityFeePerGas |-> toHex(maxPriorityFeePerGas),
     paymasterAndData |-> EmptyBytes,
     signature |-> EmptyBytes]

\* The operation record of sendUserOp (03-social), step 6. The model's
\* integers have 32 bits: the two fee literals 0x2540be400 are written
\* without their last two digits, 0x2540be4.
SocialUserOp(sender, epNonce, initCode, callData) ==
    [sender |-> sender,
     nonce |-> toString16(epNonce),
     initCode |-> initCode,
     callData |-> callData,
     callGasLimit |-> <<3, 5, 0, 0, 0, 0>>,
     verificationGasLimit |-> <<1, 5, 0, 0, 0, 0>>,
     preVerificationGas |-> <<4, 0, 0, 0, 0>>,
     maxFeePerGas |-> <<2, 5, 4, 0, 11, 14, 4>>,
     maxPriorityFeePerGas |-> <<2, 5, 4, 0, 11, 14, 4>>,
     paymasterAndData |-> EmptyBytes,
     signature |-> EmptyBytes]

\* The record a run holds before it has built its operation.
BlankOp == buildUserOperation(ZeroAddress, 0, EmptyBytes, 0, 0)

(* ------------------------------------------------------------------ *)
(* Digests of the clients                                              *)
(* ------------------------------------------------------------------ *)

\* computeUserOpHash (utils.ts).
computeUserOpHash(sender, nonce, callData) ==
    keccak256(PackAddress(sender) \o PackUint256(nonce) \o PackBytes32(keccak256(callData)))

\* rawHash with the call payload packed as it is, not hashed first.
rawHashUnnested(sender, nonceBN, callData) ==
    keccak256(PackAddress(sender) \o PackUint256(nonceBN) \o PackBytes(callData))

\* rawHash over a predicted nonce, the one after the nonce that was read.
rawHashPredicted(sender, nonceBN, callData) ==
    keccak256(PackAddress(sender) \o PackUint256(nonceBN + 1)
              \o PackBytes32(keccak256(callData)))

\* rawHash of main, step 6 (01-simple and 02-paymaster).
rawHash(sender, nonceBN, callData) ==
    keccak256(PackAddress(sender) \o PackUint256(nonceBN) \o PackBytes32(keccak256(callData)))

\* pmHash with the fields in the order of the principal digest.
pmHashReordered(sender, callData, nonce) ==
    keccak256(PackAddress(sender) \o PackUint256(nonce) \o PackBytes(callData))

\* pmHash of buildPaymasterAndData (02-paymaster).
pmHash(sender, callData, nonce) ==
    keccak256(PackAddress(sender) \o PackBytes(callData) \o PackUint256(nonce))

\* digest of signPaymaster (03-social), from the operation's own fields.
signPaymasterDigest(userOp) ==
    keccak256(PackAddress(userOp.sender) \o PackBytes(userOp.callData)
              \o PackUint256(BigInt(userOp.nonce)))

\* EntryPoint.getUserOpHash: a digest of the whole operation it is given,
\* of the EntryPoint and of the chain.
getUserOpHash(op) ==
    keccak256(<< <<"userOp", 0, <<op, EntryPointAddr>>>> >>)

\* signUserOperationHash that signs the digest itself, without the
\* personal-message wrapping.
signUserOperationHashRaw(ownerPk, hash) == ecsign(ownerPk, hash)

\* signUserOperationHash: the owner's personal-message signature of rawHash.
signUserOperationHash(ownerPk, hash) == signMessage(ownerPk, <<hash>>)

\* buildPaymasterAndData: paymaster address ++ signature of pmHash.
buildPaymasterAndData(paymasterAddress, paymasterPk, sender, callData, nonce) ==
    paymasterAddress \o signMessage(paymasterPk, <<pmHash(sender, callData, nonce)>>)

\* signPaymaster (03-social): the signer's signature of the sponsor digest.
signPaymaster(pk, userOp) == signMessage(pk, <<signPaymasterDigest(userOp)>>)

(* ------------------------------------------------------------------ *)
(* Contracts                                                           *)
(* ------------------------------------------------------------------ *)

BadChunk == <<"none", 0, << >>>>

\* The chunk that starts at byte offset `off` of b.
ChunkAt(b, off) ==
    LET s == SliceFrom(b, off, ByteLen(b)) IN IF Len(s) = 0 THEN BadChunk ELSE Head(s)

\* split / _split: (v, r, s) of a 65-byte signature.
split(sig) == <<ChunkAt(sig, 2 * WordWidth), ChunkAt(sig, 0), ChunkAt(sig, WordWidth)>>

\* recover / _recover: the signer of the personal-message hash of digest.
recover(digest, sig) ==
    LET ethHash == keccak256(PersonalPrefix(32) \o PackBytes32(digest))
        vrs == split(sig)
    IN  ecrecover(ethHash, vrs[1], vrs[2], vrs[3])

\* DemoAccount.validateUserOp (01-simple) called by msgSender on a decoded
\* operation, for an account owned by `owner`: "ok" or the revert reason.
validateUserOp(userOp, msgSender, owner) ==
    IF msgSender # EntryPointAddr THEN "not from entrypoint"
    ELSE LET hash == keccak256(PackAddress(userOp.sender) \o PackUint256(userOp.nonce)
                               \o PackBytes32(keccak256(userOp.callData)))
         IN  IF ByteLen(userOp.signature) # 65 THEN "bad sig"
             ELSE IF recover(hash, userOp.signature) # owner THEN "invalid signature"
             ELSE "ok"

\* The digest DemoPaymaster.validatePaymasterUserOp recomputes.
PaymasterDigest(userOp) ==
    keccak256(PackAddress(userOp.sender) \o PackBytes(userOp.callData)
              \o PackUint256(userOp.nonce))

\* validatePaymasterUserOp without its test of the payload's length.
validatePaymasterUserOpAnyLength(userOp, msgSender, signer) ==
    IF msgSender # EntryPointAddr THEN "only entrypoint"
    ELSE LET signature == SliceFrom(userOp.paymasterAndData, 20, 85) IN
         IF ByteLen(signature) # 65 THEN "invalid signature length"
         ELSE IF recover(PaymasterDigest(userOp), signature) # signer
              THEN "invalid paymaster signature"
              ELSE "ok"

\* DemoPaymaster.validatePaymasterUserOp called by msgSender, for a
\* paymaster whose signer is `signer`: "ok" or the revert reason.
validatePaymasterUserOp(userOp, msgSender, signer) ==
    IF msgSender # EntryPointAddr THEN "only entrypoint"
    ELSE LET pnd == userOp.paymasterAndData IN
         IF ByteLen(pnd) # 20 + 65 THEN "invalid paymasterAndData length"
         ELSE LET signature == SliceFrom(pnd, 20, 85) IN
              IF ByteLen(signature) # 65 THEN "invalid signature length"
              ELSE IF recover(PaymasterDigest(userOp), signature) # signer
                   THEN "invalid paymaster signature"
                   ELSE "ok"

\* DemoPaymaster.postOp called by msgSender: the counter after the call and
\* the revert reason ("none" when it returns).
postOp(dummyCounter, msgSender) ==
    IF msgSender # EntryPointAddr
    THEN [dummyCounter |-> dummyCounter, revert |-> "only entrypoint"]
    ELSE [dummyCounter |-> dummyCounter + 1, revert |-> "none"]

\* _payPrefund: the call validateUserOp makes to the EntryPoint.
_payPrefund(missingAccountFunds) ==
    IF missingAccountFunds # 0 THEN "depositTo" ELSE "none"

\* DemoAccount.setOwner (01-simple) called by msgSender: the owner after the
\* call and the revert reason.
setOwnerSimple(owner, msgSender, newOwner) ==
    IF msgSender # owner THEN [owner |-> owner, revert |-> "not owner"]
    ELSE [owner |-> newOwner, revert |-> "none"]

\* execute (01-simple) that lets the owner in as well as the EntryPoint.
executeByOwner(owner, self, msgSender, inner) ==
    IF msgSender # EntryPointAddr /\ msgSender # owner
    THEN [owner |-> owner, revert |-> "only EP", external |-> "none"]
    ELSE [owner |-> owner, revert |-> "none", external |-> inner[1]]

\* DemoAccount.execute (01-simple) of the account at `self`, called by
\* msgSender: `inner` is the call it forwards, <<"increment", _>> to DemoLogic
\* or <<"setOwner", newOwner>> to the account itself. `external` is the call
\* that was made, "none" when execute reverted before making one.
executeSimple(owner, self, msgSender, inner) ==
    IF msgSender # EntryPointAddr
    THEN [owner |-> owner, revert |-> "only EP", external |-> "none"]
    ELSE IF inner[1] = "setOwner"
    THEN LET set == setOwnerSimple(owner, self, inner[2])
         IN  IF set.revert # "none"
             THEN [owner |-> owner, revert |-> "exec failed", external |-> inner[1]]
             ELSE [owner |-> set.owner, revert |-> "none", external |-> inner[1]]
    ELSE [owner |-> owner, revert |-> "none", external |-> inner[1]]

(* ------------------------------------------------------------------ *)
(* Configuration and external answers                                  *)
(* ------------------------------------------------------------------ *)

Demos == {"simple", "paymaster", "social"}

\* The paymaster address setting: a 20-byte address, an address one byte
\* short, or no setting at all.
PaymasterSettings == {"ok", "short", "missing"}

\* The hex string the clients concatenate the sponsor signature to.
paymasterAddress(setting) ==
    CASE setting = "ok" -> AddressHex(PaymasterAddr, AddressWidth)
      [] setting = "short" -> AddressHex(PaymasterAddr, AddressWidth - 1)
      [] OTHER -> NotHex("undefined")

\* The settings of a URL and of an address other than the paymaster's.
UrlSettings == {"ok", "missing"}
AddressSettings == {"ok", "invalid", "missing"}

\* envValue: the setting is present.
envValue(setting) == setting # "missing"

\* envAddress with isAddress left out.
envAddressLax(setting) == setting # "missing"

\* envAddress: the setting is present and isAddress accepts it.
envAddress(setting) == setting = "ok"

\* envHex: the setting is present and starts with 0x.
envHex(pk) == pk \notin {NoKey, UnprefixedKey}

\* The error each env helper throws, "none" when it returns.
envValueError(setting, name) ==
    IF ~envValue(setting) THEN "Missing env var: " \o name ELSE "none"

envAddressError(setting, name) ==
    IF setting = "missing" THEN "Missing env var: " \o name
    ELSE IF ~envAddress(setting) THEN "Invalid address in " \o name
    ELSE "none"

envHexError(pk, name) ==
    IF pk = NoKey THEN "Missing env var: " \o name
    ELSE IF ~envHex(pk) THEN name \o " must start with 0x"
    ELSE "none"

\* privateKeyToAccount throws on a malformed key.
privateKeyToAccount(pk) == pk \in Keys

\* getPaymasterSignerPk: null when the setting is absent or blank.
getPaymasterSignerPk(pk) == IF pk = NoKey THEN NoKey ELSE pk

\* The uuid of the logged-in identity, or none.
Uuids == {"u1"}
NoUuid == "none"
BackendSalt == keccak256(<< <<"text", 0, <<"backendSalt">>>> >>)

\* Fee suggestions of the relay (maxFeePerGas, maxPriorityFeePerGas).
\* JSON numbers and strings pass through BigInt(...), which accepts a negative value.
FeeQuotes == {<<2, 1>>, <<26, 17>>, <<0 - 3, 1>>}

\* Receipts the relay may return.
Receipts == {"receiptA", "receiptB"}
NoReceipt == "none"

\* Answers of eth_getUserOperationReceipt without a usable result: no result
\* key, a null result, an error object only.
AbsentAnswers == {"absent", "null", "error"}

\* Answers of eth_sendUserOperation: a tracking hash, an error object, a
\* result that is no string, an empty string.
SendAnswers == {"handle", "error", "nonstring", "empty"}

\* eth_getCode answers, as character sequences: for an address without code
\* nothing at all, "0x" or "0x0"; for a contract its code.
CodeAnswers(codePresent) ==
    IF codePresent THEN {<<"0", "x", "6", "0", "8", "0">>}
    ELSE {<< >>, <<"0", "x">>, <<"0", "x", "0">>}

\* smartAccountExists, from the answer of getCode.
smartAccountExists(code) ==
    IF Len(code) = 0 THEN FALSE
    ELSE IF code = <<"0", "x">> \/ code = <<"0", "x", "0">> THEN FALSE
    ELSE Len(code) > 2

\* AccountFactory.getAddress: the CREATE2 address of the account.
getAddress(uuidString, backendSalt, entryPoint) ==
    LET salt == keccak256(<< <<"text", 0, <<uuidString>>>> >> \o PackBytes32(backendSalt))
        bytecode == << <<"creationCode", 0, <<"DemoAccount">>>> >> \o PackAddress(entryPoint)
        hash == keccak256(<< <<"byte", 1, <<255>>>> >> \o PackAddress(FactoryAddr)
                          \o PackBytes32(salt) \o PackBytes32(keccak256(bytecode)))
    IN  <<"create2", hash>>

(* ------------------------------------------------------------------ *)
(* AccountFactory and the DemoAccount of 03-social                     *)
(* ------------------------------------------------------------------ *)

\* The nonce of a DemoAccount is counted in 0..MaxAccountNonce.
MaxAccountNonce == 1

\* AccountFactory.admin: the sender of the factory's constructor.
admin == <<"eoa", "admin">>

\* The accounts that send transactions to the contracts.
Callers == {admin, AddressOf("k1")}

\* The identities and EntryPoints accounts are created for.
FactoryUuids == {"u1", "u2"}
FactoryEntryPoints == {EntryPointAddr}

\* The address CREATE gives a contract made by `deployer`.
createAddress(deployer) == <<"create", <<"from", deployer>>>>

\* A CREATE2 that places the contract as CREATE does.
create2AsCreate(deployer, bytecode, salt) == createAddress(deployer)

\* create2(0, bytecode, salt) executed by `deployer`: the address is the
\* low 160 bits of keccak256(0xff ++ deployer ++ salt ++ keccak256(bytecode)).
create2(deployer, bytecode, salt) ==
    <<"create2", keccak256(<< <<"byte", 1, <<255>>>> >> \o PackAddress(deployer)
                           \o PackBytes32(salt) \o PackBytes32(keccak256(bytecode)))>>

\* Who deploys a DemoAccount without the factory.
DirectDeployer == AddressOf("k2")

\* The addresses at which a DemoAccount can come to live.
AccountAddrs ==
    {getAddress(u, BackendSalt, e) : u \in FactoryUuids, e \in FactoryEntryPoints}
    \cup {createAddress(FactoryAddr), createAddress(DirectDeployer)}

\* The storage of a DemoAccount; `code` says whether the address holds the
\* contract, initBy who sent the init call that succeeded.
NoAccount ==
    [code |-> FALSE, entryPoint |-> ZeroAddress, owner |-> ZeroAddress,
     factoryAdmin |-> ZeroAddress, nonce |-> 0, initialized |-> FALSE,
     initBy |-> ZeroAddress]

\* The outcome of a call: the accounts after it, what it returned and the
\* reason it reverted with ("none" when it did not). A call that reverts
\* leaves the accounts as they were.
Returns(accounts, result) == [accounts |-> accounts, result |-> result, revert |-> "none"]
Reverts(accounts, reason) == [accounts |-> accounts, result |-> ZeroAddress, revert |-> reason]

\* DemoAccount's constructor.
DemoAccountConstructor(_entryPoint) ==
    [NoAccount EXCEPT !.code = TRUE, !.entryPoint = _entryPoint]

\* init without its guard.
initUnguarded(accounts, account, msgSender, _owner, _factoryAdmin) ==
    Returns([accounts EXCEPT ![account] =
                 [@ EXCEPT !.initialized = TRUE, !.owner = _owner,
                           !.factoryAdmin = _factoryAdmin, !.initBy = msgSender]],
            ZeroAddress)

\* DemoAccount.init of the account at `account`, called by msgSender.
init(accounts, account, msgSender, _owner, _factoryAdmin) ==
    IF accounts[account].initialized THEN Reverts(accounts, "Already initialized")
    ELSE Returns([accounts EXCEPT ![account] =
                      [@ EXCEPT !.initialized = TRUE, !.owner = _owner,
                                !.factoryAdmin = _factoryAdmin, !.initBy = msgSender]],
                 ZeroAddress)

\* setOwner (03-social) open to every caller.
setOwnerByAnyone(accounts, account, msgSender, newOwner) ==
    Returns([accounts EXCEPT ![account].owner = newOwner], ZeroAddress)

\* DemoAccount.setOwner (03-social).
setOwner(accounts, account, msgSender, newOwner) ==
    IF ~(msgSender = accounts[account].owner \/ msgSender = accounts[account].factoryAdmin)
    THEN Reverts(accounts, "Not authorized")
    ELSE Returns([accounts EXCEPT ![account].owner = newOwner], ZeroAddress)

\* validateUserOp (03-social) without its test of the operation's nonce.
validateUserOpAnyNonce(accounts, account, msgSender, valid, opNonce) ==
    IF msgSender # accounts[account].entryPoint THEN Reverts(accounts, "Only EntryPoint")
    ELSE IF ~valid THEN Reverts(accounts, "Invalid signature")
    ELSE Returns([accounts EXCEPT ![account].nonce = @ + 1], ZeroAddress)

\* DemoAccount.validateUserOp (03-social): `valid` is the answer of
\* SignatureChecker for the operation's signature.
validateUserOpSocial(accounts, account, msgSender, valid, opNonce) ==
    IF msgSender # accounts[account].entryPoint THEN Reverts(accounts, "Only EntryPoint")
    ELSE IF ~valid THEN Reverts(accounts, "Invalid signature")
    ELSE IF opNonce # accounts[account].nonce THEN Reverts(accounts, "Bad nonce")
    ELSE Returns([accounts EXCEPT ![account].nonce = @ + 1], ZeroAddress)

\* SignatureChecker.isValidSignatureNow(owner, ethSignedHash, signature) for
\* the signature the key `signer` makes of userOpHash.
isValidSignatureNow(owner, signer) == AddressOf(signer) = owner

\* DemoAccount.execute (03-social): the call it forwards is <<"increment", _>>
\* to DemoLogic or <<"setOwner", newOwner>> to the account itself.
executeSocial(accounts, account, msgSender, inner) ==
    IF msgSender # accounts[account].entryPoint THEN Reverts(accounts, "Only EntryPoint")
    ELSE IF inner[1] = "setOwner"
    THEN LET set == setOwner(accounts, account, account, inner[2])
         IN  IF set.revert # "none" THEN Reverts(accounts, "Execution failed")
             ELSE Returns(set.accounts, ZeroAddress)
    ELSE Returns(accounts, ZeroAddress)

\* The call execute (03-social) makes: none when the caller is turned away.
executeSocialTarget(accounts, account, msgSender, inner) ==
    IF msgSender # accounts[account].entryPoint THEN "none" ELSE inner[1]

\* type(DemoAccount).creationCode ++ abi.encode(entryPoint)
CreationBytecode(entryPoint) ==
    << <<"creationCode", 0, <<"DemoAccount">>>> >> \o PackAddress(entryPoint)

\* keccak256(abi.encodePacked(uuidString, backendSalt))
FactorySalt(uuidString, backendSalt) ==
    keccak256(<< <<"text", 0, <<uuidString>>>> >> \o PackBytes32(backendSalt))

\* createAccount without its test for code at the predicted address.
createAccountAgain(accounts, msgSender, uuidString, backendSalt, entryPoint, initialOwner) ==
    LET predicted == getAddress(uuidString, backendSalt, entryPoint)
    IN  Returns([accounts EXCEPT ![predicted] =
                     [DemoAccountConstructor(entryPoint) EXCEPT
                          !.initialized = TRUE, !.owner = initialOwner,
                          !.factoryAdmin = admin, !.initBy = FactoryAddr]],
                predicted)

\* AccountFactory.createAccount called by msgSender.
createAccount(accounts, msgSender, uuidString, backendSalt, entryPoint, initialOwner) ==
    LET salt == FactorySalt(uuidString, backendSalt)
        predicted == getAddress(uuidString, backendSalt, entryPoint)
    IN  IF accounts[predicted].code THEN Returns(accounts, predicted)
        ELSE LET bytecode == CreationBytecode(entryPoint)
                 account == create2(FactoryAddr, bytecode, salt)
             IN  IF accounts[account].code THEN Reverts(accounts, "CREATE2 failed")
                 ELSE LET made == [accounts EXCEPT
                                       ![account] = DemoAccountConstructor(entryPoint)]
                          inited == init(made, account, FactoryAddr, initialOwner, admin)
                      IN  IF inited.revert # "none" THEN Reverts(accounts, inited.revert)
                          ELSE Returns(inited.accounts, account)

\* AccountFactory.setSmartAccountOwner called by msgSender.
setSmartAccountOwner(accounts, msgSender, uuidString, backendSalt, entryPoint, newOwner) ==
    IF msgSender # admin THEN Reverts(accounts, "Only admin")
    ELSE LET account == getAddress(uuidString, backendSalt, entryPoint)
         IN  IF ~accounts[account].code THEN Reverts(accounts, "Account not deployed")
             ELSE LET set == setOwner(accounts, account, FactoryAddr, newOwner)
                  IN  IF set.revert # "none" THEN Reverts(accounts, set.revert)
                      ELSE Returns(set.accounts, ZeroAddress)

\* The last call made to a contract: the function, its sender and arguments,
\* what it returned or reverted with, and whether it found code at the
\* account it was about.
NoCall ==
    [fn |-> "none", msgSender |-> ZeroAddress, uuidString |-> NoUuid,
     entryPoint |-> ZeroAddress, account |-> ZeroAddress, owner |-> ZeroAddress,
     factoryAdmin |-> ZeroAddress, result |-> ZeroAddress, revert |-> "none",
     hadCode |-> FALSE, signer |-> NoKey, opNonce |-> 0, userOp |-> BlankOp,
     external |-> "none"]

(* ------------------------------------------------------------------ *)
(* State                                                               *)
(* ------------------------------------------------------------------ *)

VARIABLES
    env,            \* the settings of the client that runs, and which client
    boot,           \* module initialisation: "loading", "ready", or the error thrown
    session,        \* 03-social: the page's globals, its salt, localStorage, the UI
    chainCode,      \* whether code is present at the account's address
    chainNonce,     \* EntryPoint.getNonce(account, 0)
    accountOwner,   \* DemoAccount.owner
    runs,           \* the pipeline runs: position and local variables
    chain           \* AccountFactory and the DemoAccounts: state and last call

vars == <<env, boot, session, chainCode, chainNonce, accountOwner, runs, chain>>

NoDigest == BadChunk

IdleRun ==
    [pc |-> "idle",
     failure |-> "none",
     sender |-> ZeroAddress,
     exists |-> FALSE,
     nonceBN |-> 0,
     nonceAtRead |-> 0,
     fees |-> <<0, 0>>,
     callData |-> EmptyBytes,
     userOp |-> BlankOp,
     pmDigest |-> NoDigest,
     ownerDigest |-> NoDigest,
     sent |-> << >>,
     codeAtSubmit |-> FALSE,
     sendRequests |-> 0,
     sendAnswer |-> "none",
     validation |-> "none",
     pmValidation |-> "none",
     queries |-> 0,
     slept |-> 0,
     pollTrace |-> << >>,
     lastAnswer |-> NoReceipt,
     receipt |-> NoReceipt,
     stopAt |-> 0,
     needed |-> 0,
     topUps |-> << >>,
     topUpMined |-> FALSE,
     owner |-> NoKey,
     uuidArg |-> NoUuid]

\* The contracts' side before any call: no DemoAccount has code.
\* `validated` holds the operations validateUserOp has accepted, dummyCounter
\* is the paymaster's counter.
NoChain ==
    [accounts |-> [a \in AccountAddrs |-> NoAccount], last |-> NoCall,
     validated |-> {}, dummyCounter |-> 0, aaBalance |-> 0, ownerBalance |-> 0]

\* Balances are counted in thousandths of an ether, in 0..MaxBalance.
MaxBalance == 6

\* MIN_AA_BALANCE = parseEther("0.005")
MIN_AA_BALANCE == 5

\* The balances (smart account, owner) a run of the clients starts from: an
\* account that is funded, and an empty one beside an owner who cannot or
\* can fund it.
StartBalances == {<<MIN_AA_BALANCE, 0>>, <<0, 0>>, <<0, MaxBalance>>}

\* The chain with the two balances b.
WithBalances(b) == [NoChain EXCEPT !.aaBalance = b[1], !.ownerBalance = b[2]]

\* textContent of an element that shows nothing.
NoText == <<"text", "">>

\* localStorage.getItem of a key that is not stored.
NoItem == "none"

\* showLoggedOutUI: the login button is shown, the logout button and the user
\* panel are hidden, sendOp and refreshCount are disabled, both address
\* fields are cleared.
showLoggedOutUI ==
    [googleLogin |-> TRUE, logoutBtn |-> FALSE, userInfo |-> FALSE,
     sendOpDisabled |-> TRUE, refreshCountDisabled |-> TRUE,
     eoa |-> NoText, smartAccount |-> NoText]

\* showLoggedInUI(owner, smartAccount)
showLoggedInUI(owner, smartAccount) ==
    [googleLogin |-> FALSE, logoutBtn |-> TRUE, userInfo |-> TRUE,
     sendOpDisabled |-> FALSE, refreshCountDisabled |-> FALSE,
     eoa |-> owner, smartAccount |-> smartAccount]

\* The 03-social page before init has done anything but showLoggedOutUI: the
\* three globals are null, backendSalt is the salt of the build, localStorage
\* holds none of the three items.
NoSession ==
    [ownerPk |-> NoKey, uuidString |-> NoUuid, smartAccountAddress |-> ZeroAddress,
     backendSalt |-> BackendSalt,
     savedPk |-> NoItem, savedUuid |-> NoItem, savedSa |-> NoItem,
     ui |-> showLoggedOutUI]

\* The page with the globals set to a key and a uuid, nothing stored; the
\* logged-in UI is shown when both are there and the key makes an account.
SessionOf(pk, uuid) ==
    [NoSession EXCEPT !.ownerPk = pk, !.uuidString = uuid,
                      !.ui = IF privateKeyToAccount(pk) /\ uuid # NoUuid
                             THEN showLoggedInUI(AddressOf(pk),
                                      getAddress(uuid, BackendSalt, EntryPointAddr))
                             ELSE showLoggedOutUI]

\* The account the running client sends operations for.
Account ==
    IF env.demo = "social"
    THEN getAddress(session.uuidString, session.backendSalt, EntryPointAddr)
    ELSE SimpleAccountAddr

\* The signer DemoPaymaster was deployed with.
PaymasterSigner == AddressOf("k2")

Init ==
    /\ env \in [demo : Demos, ownerPk : Keys \cup {BadKey, UnprefixedKey, NoKey},
                paymasterPk : {"k2", BadKey, UnprefixedKey, NoKey},
                paymasterAddress : PaymasterSettings,
                rpcUrl : UrlSettings, bundlerUrl : UrlSettings,
                entryPoint : AddressSettings, account : AddressSettings,
                logic : AddressSettings]
    /\ env.demo = "simple" => env.paymasterPk = NoKey /\ env.paymasterAddress = "missing"
    /\ env.demo = "social" =>
          /\ env.ownerPk \notin {"k2", UnprefixedKey}
          /\ env.paymasterPk # UnprefixedKey
          /\ env.rpcUrl = "ok" /\ env.bundlerUrl = "ok"
          /\ env.entryPoint = "ok" /\ env.account = "ok" /\ env.logic = "ok"
    /\ boot = "loading"
    /\ session \in {SessionOf(env.ownerPk, u) : u \in Uuids \cup {NoUuid}}
    /\ env.demo # "social" => session.uuidString = NoUuid
    /\ chainCode \in BOOLEAN
    /\ env.demo # "social" => chainCode
    /\ chainNonce = 0
    /\ accountOwner = AddressOf("k1")
    /\ runs = [r \in RunIds |-> IdleRun]
    /\ chain \in {WithBalances(b) : b \in StartBalances}
    /\ env.demo # "simple" => chain = WithBalances(<<MIN_AA_BALANCE, 0>>)

(* ------------------------------------------------------------------ *)
(* Module initialisation                                               *)
(* ------------------------------------------------------------------ *)

\* PAYMASTER_PRIVATE_KEY ?? PRIVATE_KEY (02-paymaster).
PaymasterPk == IF env.paymasterPk = NoKey THEN env.ownerPk ELSE env.paymasterPk

\* The first error of a sequence of checks, "none" when all pass.
RECURSIVE FirstError(_)
FirstError(errors) ==
    IF errors = << >> THEN "none"
    ELSE IF Head(errors) # "none" THEN Head(errors)
    ELSE FirstError(Tail(errors))

\* getOwnerWallet: privateKeyToAccount throws on a malformed key.
getOwnerWallet(pk) == IF privateKeyToAccount(pk) THEN "none" ELSE "invalid private key"

\* The error the module's top-level statements throw, in their order.
ConfigFailure ==
    LET common == <<envValueError(env.rpcUrl, "SCROLL_RPC"),
                    envValueError(env.bundlerUrl, "BUNDLER_URL"),
                    envAddressError(env.entryPoint, "SC_ENTRYPOINT_ADDRESS"),
                    envAddressError(env.account, "SC_ACCOUNT_ADDRESS"),
                    envAddressError(env.logic, "SC_DEMOLOGIC_ADDRESS")>>
    IN CASE env.demo = "simple" ->
              FirstError(common \o <<envHexError(env.ownerPk, "PRIVATE_KEY"),
                                     getOwnerWallet(env.ownerPk)>>)
         [] env.demo = "paymaster" ->
              FirstError(common \o
                         <<envAddressError(env.paymasterAddress, "SC_PAYMASTER_ADDRESS"),
                           envHexError(env.ownerPk, "PRIVATE_KEY"),
                           envHexError(PaymasterPk, "PAYMASTER_PRIVATE_KEY"),
                           getOwnerWallet(env.ownerPk)>>)
         [] OTHER -> "none"

\* The settings pass the env helpers and getOwnerWallet builds the owner.
ConfigOk == ConfigFailure = "none"

ModuleInit ==
    /\ boot = "loading"
    /\ boot' = IF ConfigOk THEN "ready" ELSE ConfigFailure
    /\ UNCHANGED <<env, session, chainCode, chainNonce, accountOwner, runs, chain>>

(* ------------------------------------------------------------------ *)
(* The chain, seen from the client                                     *)
(* ------------------------------------------------------------------ *)

\* Code appears at the account's address: createAccount was called, by a
\* mined operation of this client or by anyone else.
ChainDeploy ==
    /\ env.demo = "social" /\ boot = "ready"
    /\ ~chainCode
    /\ chainCode' = TRUE
    /\ UNCHANGED <<env, boot, session, chainNonce, accountOwner, runs, chain>>

\* getCode stops reporting the code (the deployment is reorganised away, or
\* the node that answers lags behind).
ChainCodeGone ==
    /\ env.demo = "social" /\ boot = "ready"
    /\ chainCode
    /\ chainCode' = FALSE
    /\ UNCHANGED <<env, boot, session, chainNonce, accountOwner, runs, chain>>

\* An operation of the account is mined: its EntryPoint nonce advances.
ChainNonceAdvance ==
    /\ boot = "ready"
    /\ chainNonce < MaxNonce
    /\ chainNonce' = chainNonce + 1
    /\ UNCHANGED <<env, boot, session, chainCode, accountOwner, runs, chain>>

(* ------------------------------------------------------------------ *)
(* Steps shared by the pipelines                                       *)
(* ------------------------------------------------------------------ *)

Terminal == {"idle", "done", "error", "rejected", "exited", "returned"}

InFlight(r) == runs[r].pc \notin Terminal

\* The positions at which a run awaits a network answer or a signature.
Awaiting ==
    {"count_before", "prefund", "prefund_owner", "topup_send", "topup_wait",
     "balance", "nonce_read", "gas_prices", "owner_sign",
     "pm_sign", "submit", "poll_fetch", "count_after",
     "getAddress", "getCode_ensure", "getCode", "getNonce", "pm_sign_social",
     "getUserOpHash", "owner_sign_social", "submit_social"}

Set(r, rec) == runs' = [runs EXCEPT ![r] = rec]

\* A run that has ended: its local variables are gone, what is left is how
\* it ended, how many submit requests it has issued and what the relay
\* answered to them.
End(run, pc, failure) ==
    [IdleRun EXCEPT !.pc = pc, !.failure = failure, !.sendRequests = run.sendRequests,
                    !.sendAnswer = run.sendAnswer]

\* Submit with the request body taken before the signature is written.
SubmitUnsigned(run, pc) ==
    [run EXCEPT !.pc = pc, !.sent = <<[run.userOp EXCEPT !.signature = EmptyBytes]>>,
                !.codeAtSubmit = chainCode, !.sendRequests = run.sendRequests + 1]

\* The body handed to fetch: the operation as it is when the request is made.
Submit(run, pc) ==
    [run EXCEPT !.pc = pc, !.sent = <<run.userOp>>, !.codeAtSubmit = chainCode,
                !.sendRequests = run.sendRequests + 1]

\* An awaited call rejects (transport failure, malformed JSON, a failed
\* signature): the run ends with the error, at the position it was awaiting.
AwaitRejects(r) ==
    /\ runs[r].pc \in Awaiting
    /\ Set(r, End(runs[r], "error", runs[r].pc))
    /\ UNCHANGED <<env, boot, session, chainCode, chainNonce, accountOwner, chain>>

(* ------------------------------------------------------------------ *)
(* main of 01-simple and 02-paymaster                                  *)
(* ------------------------------------------------------------------ *)

\* StartMain that computes rawHash at once, from the nonce it has not read.
StartMainEager(r) ==
    /\ boot = "ready" /\ env.demo \in {"simple", "paymaster"}
    /\ runs[r].pc = "idle"
    /\ \A q \in RunIds : ~InFlight(q)
    /\ Set(r, [runs[r] EXCEPT !.pc = "count_before", !.sender = SimpleAccountAddr,
                              !.ownerDigest = rawHash(SimpleAccountAddr, runs[r].nonceBN,
                                                      EmptyBytes)])
    /\ UNCHANGED <<env, boot, session, chainCode, chainNonce, accountOwner, chain>>

\* main is called.
StartMain(r) ==
    /\ boot = "ready" /\ env.demo \in {"simple", "paymaster"}
    /\ runs[r].pc = "idle"
    /\ \A q \in RunIds : ~InFlight(q)
    /\ Set(r, [runs[r] EXCEPT !.pc = "count_before", !.sender = SimpleAccountAddr])
    /\ UNCHANGED <<env, boot, session, chainCode, chainNonce, accountOwner, chain>>

\* Step 0: readDemoCount BEFORE.
CountBefore(r) ==
    /\ runs[r].pc = "count_before"
    /\ Set(r, [runs[r] EXCEPT !.pc = IF env.demo = "simple" THEN "prefund" ELSE "balance"])
    /\ UNCHANGED <<env, boot, session, chainCode, chainNonce, accountOwner, chain>>

\* Step 1 of 01-simple, ensureAaFunded: the smart account's balance arrives.
\* With the minimum or more the function returns; otherwise it computes what
\* is missing and reads the owner's balance.
Prefund(r) ==
    /\ runs[r].pc = "prefund"
    /\ LET aaBalance == chain.aaBalance IN
       IF aaBalance >= MIN_AA_BALANCE
       THEN Set(r, [runs[r] EXCEPT !.pc = "nonce_read"])
       ELSE Set(r, [runs[r] EXCEPT !.pc = "prefund_owner",
                                   !.needed = MIN_AA_BALANCE - aaBalance])
    /\ UNCHANGED <<env, boot, session, chainCode, chainNonce, accountOwner, chain>>

\* The owner's balance test with < in the place of <=.
PrefundOwnerBalanceLax(r) ==
    /\ runs[r].pc = "prefund_owner"
    /\ LET ownerBalance == chain.ownerBalance
           run == runs[r]
       IN  IF ownerBalance < run.needed
           THEN Set(r, End(run, "exited", "owner cannot fund the account"))
           ELSE Set(r, [run EXCEPT !.pc = "topup_send",
                                   !.topUps = Append(run.topUps, run.needed)])
    /\ UNCHANGED <<env, boot, session, chainCode, chainNonce, accountOwner, chain>>

\* ensureAaFunded: the owner's balance arrives. An owner who has no more
\* than what is missing ends the process; otherwise the wallet is asked to
\* send `needed` to the smart account.
PrefundOwnerBalance(r) ==
    /\ runs[r].pc = "prefund_owner"
    /\ LET ownerBalance == chain.ownerBalance
           run == runs[r]
       IN  IF ownerBalance <= run.needed
           THEN Set(r, End(run, "exited", "owner cannot fund the account"))
           ELSE Set(r, [run EXCEPT !.pc = "topup_send",
                                   !.topUps = Append(run.topUps, run.needed)])
    /\ UNCHANGED <<env, boot, session, chainCode, chainNonce, accountOwner, chain>>

\* sendTransaction returns the hash of the transfer; the function waits for
\* its receipt.
TopUpSent(r) ==
    /\ runs[r].pc = "topup_send"
    /\ Set(r, [runs[r] EXCEPT !.pc = "topup_wait"])
    /\ UNCHANGED <<env, boot, session, chainCode, chainNonce, accountOwner, chain>>

\* The transfer is mined: DemoAccount's receive() accepts it.
TopUpMined(r) ==
    /\ runs[r].pc = "topup_wait" /\ ~runs[r].topUpMined
    /\ LET value == runs[r].topUps[Len(runs[r].topUps)] IN
       /\ value <= chain.ownerBalance
       /\ chain' = [chain EXCEPT !.aaBalance = @ + value, !.ownerBalance = @ - value]
    /\ Set(r, [runs[r] EXCEPT !.topUpMined = TRUE])
    /\ UNCHANGED <<env, boot, session, chainCode, chainNonce, accountOwner>>

\* waitForTransactionReceipt returns the receipt: ensureAaFunded returns.
TopUpConfirmed(r) ==
    /\ runs[r].pc = "topup_wait" /\ runs[r].topUpMined
    /\ Set(r, [runs[r] EXCEPT !.pc = "nonce_read"])
    /\ UNCHANGED <<env, boot, session, chainCode, chainNonce, accountOwner, chain>>

\* Step 1 of 02-paymaster: the balance is read and shown.
Balance(r) ==
    /\ runs[r].pc = "balance"
    /\ Set(r, [runs[r] EXCEPT !.pc = "nonce_read"])
    /\ UNCHANGED <<env, boot, session, chainCode, chainNonce, accountOwner, chain>>

\* Step 2: the nonce is read from the EntryPoint.
NonceRead(r) ==
    /\ runs[r].pc = "nonce_read"
    /\ Set(r, [runs[r] EXCEPT !.pc = "gas_prices", !.nonceBN = chainNonce,
                              !.nonceAtRead = chainNonce])
    /\ UNCHANGED <<env, boot, session, chainCode, chainNonce, accountOwner, chain>>

\* Steps 3 to 7: the fee quote arrives; the call payload, the operation and
\* rawHash are built and the owner's signature is requested.
GasPrices(r) ==
    /\ runs[r].pc = "gas_prices"
    /\ \E quote \in FeeQuotes :
         LET run == runs[r]
             callData == encodeExecute(LogicAddr, 0, encodeIncrementCall)
         IN  Set(r, [run EXCEPT
                 !.pc = "owner_sign",
                 !.fees = quote,
                 !.callData = callData,
                 !.userOp = buildUserOperation(SimpleAccountAddr, run.nonceBN, callData,
                                               quote[1], quote[2]),
                 !.ownerDigest = rawHash(SimpleAccountAddr, run.nonceBN, callData)])
    /\ UNCHANGED <<env, boot, session, chainCode, chainNonce, accountOwner, chain>>

\* getBundlerGasPrices throws when the answer carries no result.
GasPricesMissing(r) ==
    /\ runs[r].pc = "gas_prices"
    /\ Set(r, End(runs[r], "error", "Bundler did not return gas price result"))
    /\ UNCHANGED <<env, boot, session, chainCode, chainNonce, accountOwner, chain>>

\* Step 7: the signature is written into the operation. 01-simple then
\* submits; 02-paymaster calls buildPaymasterAndData, which throws on a
\* malformed paymaster key.
OwnerSigned(r) ==
    /\ runs[r].pc = "owner_sign"
    /\ LET run == runs[r]
           signed == [run EXCEPT !.userOp.signature =
                          signUserOperationHash(env.ownerPk, run.ownerDigest)]
       IN  IF env.demo = "simple" THEN Set(r, Submit(signed, "submit"))
           ELSE IF ~privateKeyToAccount(PaymasterPk)
                THEN Set(r, End(runs[r], "error", "invalid private key"))
                ELSE Set(r, [signed EXCEPT
                         !.pc = "pm_sign",
                         !.pmDigest = pmHash(SimpleAccountAddr, run.callData, run.nonceBN)])
    /\ UNCHANGED <<env, boot, session, chainCode, chainNonce, accountOwner, chain>>

\* Step 8 of 02-paymaster: paymasterAndData is written and the operation
\* is submitted.
PaymasterSigned(r) ==
    /\ runs[r].pc = "pm_sign"
    /\ LET run == runs[r]
           sponsored == [run EXCEPT !.userOp.paymasterAndData =
                             buildPaymasterAndData(paymasterAddress(env.paymasterAddress),
                                 PaymasterPk, SimpleAccountAddr, run.callData, run.nonceBN)]
       IN  Set(r, Submit(sponsored, "submit"))
    /\ UNCHANGED <<env, boot, session, chainCode, chainNonce, accountOwner, chain>>

\* What the validators answer for an operation the relay received.
AccountValidation(op) == validateUserOp(toEntryPointUserOp(op), EntryPointAddr, accountOwner)

PaymasterValidation(op) ==
    IF Len(op.paymasterAndData) = 0 THEN "none"
    ELSE validatePaymasterUserOp(toEntryPointUserOp(op), EntryPointAddr, PaymasterSigner)

\* A test of the answer that looks for an error object only.
InvalidSendResultLax(answer) == answer = "error"

\* `!sendRes.result || typeof sendRes.result !== "string"`
InvalidSendResult(answer) == answer # "handle"

\* Steps 8/9: the relay answers eth_sendUserOperation. It returns a tracking
\* hash only for an operation its validators accept. Without a hash main
\* throws; with one it enters waitForReceipt, which issues its first query.
SubmitAnswered(r) ==
    /\ runs[r].pc = "submit"
    /\ \E answer \in SendAnswers :
         LET run == runs[r]
             op == run.sent[1]
             judged == [run EXCEPT !.sendAnswer = answer,
                                   !.validation = AccountValidation(op),
                                   !.pmValidation = PaymasterValidation(op)]
         IN  /\ answer = "handle" =>
                  judged.validation = "ok" /\ judged.pmValidation \in {"ok", "none"}
             /\ IF InvalidSendResult(answer)
                THEN Set(r, End(judged, "rejected",
                                "Bundler did not return a valid operation hash"))
                ELSE Set(r, [judged EXCEPT !.pc = "poll_fetch", !.queries = 1])
    /\ UNCHANGED <<env, boot, session, chainCode, chainNonce, accountOwner, chain>>

(* ------------------------------------------------------------------ *)
(* waitForReceipt                                                      *)
(* ------------------------------------------------------------------ *)

\* A test for a result that takes any answer with a result key or an error.
HasResultLoose(answer) == answer # "absent"

\* `if (res.result)`: the answer carries a receipt.
HasResult(answer) == answer \in Receipts

\* The relay answers eth_getUserOperationReceipt: with a receipt the loop
\* returns it, and main goes on to read the counter; without one the loop
\* starts its one-second timer.
PollAnswered(r) ==
    /\ runs[r].pc = "poll_fetch"
    /\ \E answer \in AbsentAnswers \cup Receipts :
         LET run == runs[r] IN
         IF HasResult(answer)
         THEN Set(r, [run EXCEPT !.pc = "count_after", !.receipt = answer,
                                 !.lastAnswer = answer,
                                 !.pollTrace = Append(run.pollTrace, "settled")])
         ELSE Set(r, [run EXCEPT !.pc = "poll_sleep",
                                 !.lastAnswer = IF answer \in Receipts THEN answer
                                                ELSE NoReceipt,
                                 !.pollTrace = Append(run.pollTrace, "pending")])
    /\ UNCHANGED <<env, boot, session, chainCode, chainNonce, accountOwner, chain>>

\* A loop that gives up after three queries.
RetryAllowedBounded(queries) == queries < 3

\* `while (true)`: the loop goes round again whatever the number of queries.
RetryAllowed(queries) == TRUE

\* The caller wants the poll stopped. waitForReceipt takes the relay's URL
\* and the tracking hash and nothing else: the request is noted, and no step
\* of the loop reads it.
CallerStops(r) ==
    /\ runs[r].pc \in {"poll_fetch", "poll_sleep"}
    /\ runs[r].stopAt = 0
    /\ Set(r, [runs[r] EXCEPT !.stopAt = runs[r].queries])
    /\ UNCHANGED <<env, boot, session, chainCode, chainNonce, accountOwner, chain>>

\* The timer fires and the loop issues its next query.
PollTimer(r) ==
    /\ runs[r].pc = "poll_sleep"
    /\ RetryAllowed(runs[r].queries)
    /\ runs[r].queries < MaxPolls
    /\ Set(r, [runs[r] EXCEPT !.pc = "poll_fetch", !.queries = runs[r].queries + 1,
                              !.slept = runs[r].slept + 1])
    /\ UNCHANGED <<env, boot, session, chainCode, chainNonce, accountOwner, chain>>

\* Last step: readDemoCount AFTER and the summary.
CountAfter(r) ==
    /\ runs[r].pc = "count_after"
    /\ Set(r, End(runs[r], "done", "none"))
    /\ UNCHANGED <<env, boot, session, chainCode, chainNonce, accountOwner, chain>>

(* ------------------------------------------------------------------ *)
(* sendUserOp of 03-social                                             *)
(* ------------------------------------------------------------------ *)

\* sendUserOp without its two checks of the session.
StartSendUserOpUnguarded(r) ==
    /\ boot = "ready" /\ env.demo = "social"
    /\ runs[r].pc = "idle"
    /\ Set(r, IF ~privateKeyToAccount(session.ownerPk) /\ session.ownerPk # NoKey
              THEN End(runs[r], "error", "invalid private key")
              ELSE [runs[r] EXCEPT !.pc = "getAddress", !.owner = session.ownerPk,
                                   !.uuidArg = session.uuidString])
    /\ UNCHANGED <<env, boot, session, chainCode, chainNonce, accountOwner, chain>>

\* A call of sendUserOp. Without an owner key the call logs and returns;
\* without a uuid, or with a malformed key, it throws; otherwise `owner` is
\* made from the key and ensureSmartAccount asks the factory for the address
\* of the uuid the session holds at this moment.
StartSendUserOp(r) ==
    /\ boot = "ready" /\ env.demo = "social"
    /\ runs[r].pc = "idle"
    /\ Set(r, IF session.ownerPk = NoKey THEN End(runs[r], "returned", "not logged in")
              ELSE IF session.uuidString = NoUuid THEN End(runs[r], "error", "Missing uuidString")
              ELSE IF ~privateKeyToAccount(session.ownerPk)
                   THEN End(runs[r], "error", "invalid private key")
              ELSE [runs[r] EXCEPT !.pc = "getAddress", !.owner = session.ownerPk,
                                   !.uuidArg = session.uuidString])
    /\ UNCHANGED <<env, boot, session, chainCode, chainNonce, accountOwner, chain>>

\* ensureSmartAccount: the computed address arrives, getCode is asked.
GetAddressAnswered(r) ==
    /\ runs[r].pc = "getAddress"
    /\ Set(r, [runs[r] EXCEPT !.pc = "getCode_ensure",
                              !.sender = getAddress(runs[r].uuidArg, session.backendSalt,
                                                    EntryPointAddr)])
    /\ UNCHANGED <<env, boot, session, chainCode, chainNonce, accountOwner, chain>>

\* ensureSmartAccount: its existence check is only logged, the address is stored
\* in the session and returned; sendUserOp asks getCode again.
EnsureSmartAccountDone(r) ==
    /\ runs[r].pc = "getCode_ensure"
    /\ \E code \in CodeAnswers(chainCode) :
         Set(r, [runs[r] EXCEPT !.pc = "getCode"])
    /\ session' = [session EXCEPT !.smartAccountAddress = runs[r].sender]
    /\ UNCHANGED <<env, boot, chainCode, chainNonce, accountOwner, chain>>

\* Step 1: the existence check of sendUserOp; the nonce is asked.
GetCodeAnswered(r) ==
    /\ runs[r].pc = "getCode"
    /\ \E code \in CodeAnswers(chainCode) :
         Set(r, [runs[r] EXCEPT !.pc = "getNonce", !.exists = smartAccountExists(code)])
    /\ UNCHANGED <<env, boot, session, chainCode, chainNonce, accountOwner, chain>>

\* InitCode without its branch on the existence check.
InitCodeAlways(exists, uuidString, ownerPk) ==
    AddressHex(FactoryAddr, AddressWidth)
    \o encodeFunctionData("createAccount",
           <<uuidString, session.backendSalt, EntryPointAddr, AddressOf(ownerPk)>>, 6)

\* Step 5: the init payload of the operation.
InitCode(exists, uuidString, ownerPk) ==
    IF exists THEN EmptyBytes
    ELSE AddressHex(FactoryAddr, AddressWidth)
         \o encodeFunctionData("createAccount",
                <<uuidString, session.backendSalt, EntryPointAddr, AddressOf(ownerPk)>>, 6)

\* Steps 2 to 7: the nonce arrives; call payload, init payload and the
\* operation are built, the init payload from the uuid the session holds now
\* and the owner made when the call began; signPaymaster returns null without a signer key,
\* throws on a malformed one and otherwise requests the sponsor signature.
GetNonceAnswered(r) ==
    /\ runs[r].pc = "getNonce"
    /\ LET run == runs[r]
           callData == encodeExecute(LogicAddr, 0, encodeIncrementCall)
           userOp == SocialUserOp(run.sender, chainNonce,
                         InitCode(run.exists, session.uuidString, run.owner),
                         callData)
           pk == getPaymasterSignerPk(env.paymasterPk)
           built == [run EXCEPT !.nonceBN = chainNonce, !.nonceAtRead = chainNonce,
                                !.callData = callData, !.userOp = userOp]
       IN  \/ IF pk = NoKey THEN Set(r, [built EXCEPT !.pc = "pm_sign_social"])
              ELSE IF ~privateKeyToAccount(pk)
                   THEN Set(r, End(runs[r], "error", "invalid private key"))
              ELSE Set(r, [built EXCEPT !.pc = "pm_sign_social",
                                        !.pmDigest = signPaymasterDigest(userOp)])
           \* encodeFunctionData is handed null for a string: the encoder
           \* writes the text of null or throws, as the library decides.
           \/ /\ ~run.exists /\ session.uuidString = NoUuid
              /\ Set(r, End(runs[r], "error", "encodeFunctionData"))
    /\ UNCHANGED <<env, boot, session, chainCode, chainNonce, accountOwner, chain>>

\* Steps 7/8: with a sponsor signature paymasterAndData is written; the
\* EntryPoint is asked for the hash of the operation.
PaymasterSignedSocial(r) ==
    /\ runs[r].pc = "pm_sign_social"
    /\ LET run == runs[r]
           pk == getPaymasterSignerPk(env.paymasterPk)
       IN  IF pk = NoKey THEN Set(r, [run EXCEPT !.pc = "getUserOpHash"])
           ELSE Set(r, [run EXCEPT !.pc = "getUserOpHash",
                            !.userOp.paymasterAndData =
                                paymasterAddress(env.paymasterAddress)
                                \o signPaymaster(pk, run.userOp)])
    /\ UNCHANGED <<env, boot, session, chainCode, chainNonce, accountOwner, chain>>

\* Steps 8/9: userOpHash arrives; the owner's signature is requested.
UserOpHashAnswered(r) ==
    /\ runs[r].pc = "getUserOpHash"
    /\ Set(r, [runs[r] EXCEPT !.pc = "owner_sign_social",
                              !.ownerDigest = getUserOpHash(toEntryPointUserOp(runs[r].userOp))])
    /\ UNCHANGED <<env, boot, session, chainCode, chainNonce, accountOwner, chain>>

\* Steps 9/10: the signature is written and the operation is sent.
OwnerSignedSocial(r) ==
    /\ runs[r].pc = "owner_sign_social"
    /\ LET run == runs[r]
           signed == [run EXCEPT !.userOp.signature =
                          signMessage(run.owner, <<run.ownerDigest>>)]
       IN  Set(r, Submit(signed, "submit_social"))
    /\ UNCHANGED <<env, boot, session, chainCode, chainNonce, accountOwner, chain>>

\* The relay's answer is logged, whatever it is, and the status is set to
\* "UserOperation sent.".
SubmitAnsweredSocial(r) ==
    /\ runs[r].pc = "submit_social"
    /\ \E answer \in SendAnswers :
         Set(r, End([runs[r] EXCEPT !.sendAnswer = answer], "done", "none"))
    /\ UNCHANGED <<env, boot, session, chainCode, chainNonce, accountOwner, chain>>

(* ------------------------------------------------------------------ *)
(* Specification                                                       *)
(* ------------------------------------------------------------------ *)

Next ==
    \/ ModuleInit
    \/ ChainDeploy
    \/ ChainCodeGone
    \/ ChainNonceAdvance
    \/ \E r \in RunIds : AwaitRejects(r)
    \/ \E r \in RunIds : StartMain(r)
    \/ \E r \in RunIds : CountBefore(r)
    \/ \E r \in RunIds : Prefund(r)
    \/ \E r \in RunIds : PrefundOwnerBalance(r)
    \/ \E r \in RunIds : TopUpSent(r)
    \/ \E r \in RunIds : TopUpMined(r)
    \/ \E r \in RunIds : TopUpConfirmed(r)
    \/ \E r \in RunIds : Balance(r)
    \/ \E r \in RunIds : NonceRead(r)
    \/ \E r \in RunIds : GasPrices(r)
    \/ \E r \in RunIds : GasPricesMissing(r)
    \/ \E r \in RunIds : OwnerSigned(r)
    \/ \E r \in RunIds : PaymasterSigned(r)
    \/ \E r \in RunIds : SubmitAnswered(r)
    \/ \E r \in RunIds : PollAnswered(r)
    \/ \E r \in RunIds : CallerStops(r)
    \/ \E r \in RunIds : PollTimer(r)
    \/ \E r \in RunIds : CountAfter(r)
    \/ \E r \in RunIds : StartSendUserOp(r)
    \/ \E r \in RunIds : GetAddressAnswered(r)
    \/ \E r \in RunIds : EnsureSmartAccountDone(r)
    \/ \E r \in RunIds : GetCodeAnswered(r)
    \/ \E r \in RunIds : GetNonceAnswered(r)
    \/ \E r \in RunIds : PaymasterSignedSocial(r)
    \/ \E r \in RunIds : UserOpHashAnswered(r)
    \/ \E r \in RunIds : OwnerSignedSocial(r)
    \/ \E r \in RunIds : SubmitAnsweredSocial(r)

Spec == Init /\ [][Next]_vars

(* ------------------------------------------------------------------ *)
(* ensureAaFunded over every pair of balances                          *)
(* ------------------------------------------------------------------ *)

\* 01-simple with good settings, before main is called, the smart account
\* and the owner holding any balances.
FundingInit ==
    /\ env = [demo |-> "simple", ownerPk |-> "k1", paymasterPk |-> NoKey,
              paymasterAddress |-> "missing", rpcUrl |-> "ok", bundlerUrl |-> "ok",
              entryPoint |-> "ok", account |-> "ok", logic |-> "ok"]
    /\ boot = "ready"
    /\ session = SessionOf("k1", NoUuid)
    /\ chainCode = TRUE
    /\ chainNonce = 0
    /\ accountOwner = AddressOf("k1")
    /\ runs = [r \in RunIds |-> IdleRun]
    /\ chain \in {WithBalances(<<a, o>>) : a \in 0..MaxBalance, o \in 0..MaxBalance}

\* main up to the return of ensureAaFunded.
FundingNext ==
    \/ \E r \in RunIds : StartMain(r)
    \/ \E r \in RunIds : CountBefore(r)
    \/ \E r \in RunIds : Prefund(r)
    \/ \E r \in RunIds : PrefundOwnerBalance(r)
    \/ \E r \in RunIds : TopUpSent(r)
    \/ \E r \in RunIds : TopUpMined(r)
    \/ \E r \in RunIds : TopUpConfirmed(r)
    \/ \E r \in RunIds : AwaitRejects(r)

FundingSpec == FundingInit /\ [][FundingNext]_vars

(* ------------------------------------------------------------------ *)
(* Calls to AccountFactory and to the DemoAccounts                     *)
(* ------------------------------------------------------------------ *)

\* The owners accounts are created for and handed to.
Owners == {AddressOf("k1"), AddressOf("k2")}

\* The addresses that hold a DemoAccount.
Deployed == {a \in AccountAddrs : chain.accounts[a].code}

\* The client is not running while the contracts are called.
ClientIdle == UNCHANGED <<env, boot, session, chainCode, chainNonce, accountOwner, runs>>

\* The chain after a call and its outcome.
Called(call, out) ==
    chain' = [chain EXCEPT
                  !.accounts = out.accounts,
                  !.last = [call EXCEPT !.result = out.result, !.revert = out.revert]]

FactoryInit ==
    /\ env = [demo |-> "social", ownerPk |-> "k1", paymasterPk |-> "k2",
              paymasterAddress |-> "ok", rpcUrl |-> "ok", bundlerUrl |-> "ok",
              entryPoint |-> "ok", account |-> "ok", logic |-> "ok"]
    /\ boot = "ready"
    /\ session = SessionOf("k1", "u1")
    /\ chainCode = FALSE
    /\ chainNonce = 0
    /\ accountOwner = AddressOf("k1")
    /\ runs = [r \in RunIds |-> IdleRun]
    /\ chain = NoChain

CreateAccountCall ==
    /\ \E msgSender \in Callers, u \in FactoryUuids, e \in FactoryEntryPoints,
          initialOwner \in Owners :
         LET predicted == getAddress(u, BackendSalt, e) IN
         Called([NoCall EXCEPT !.fn = "createAccount", !.msgSender = msgSender,
                               !.uuidString = u, !.entryPoint = e,
                               !.account = predicted, !.owner = initialOwner,
                               !.hadCode = chain.accounts[predicted].code],
                createAccount(chain.accounts, msgSender, u, BackendSalt, e, initialOwner))
    /\ ClientIdle

GetAddressCall ==
    /\ \E u \in FactoryUuids, e \in FactoryEntryPoints :
         LET computed == getAddress(u, BackendSalt, e) IN
         Called([NoCall EXCEPT !.fn = "getAddress", !.uuidString = u, !.entryPoint = e,
                               !.account = computed,
                               !.hadCode = chain.accounts[computed].code],
                Returns(chain.accounts, computed))
    /\ ClientIdle

SetSmartAccountOwnerCall ==
    /\ \E msgSender \in Callers, u \in FactoryUuids, e \in FactoryEntryPoints,
          newOwner \in Owners :
         LET account == getAddress(u, BackendSalt, e) IN
         Called([NoCall EXCEPT !.fn = "setSmartAccountOwner", !.msgSender = msgSender,
                               !.uuidString = u, !.entryPoint = e,
                               !.account = account, !.owner = newOwner,
                               !.hadCode = chain.accounts[account].code],
                setSmartAccountOwner(chain.accounts, msgSender, u, BackendSalt, e, newOwner))
    /\ ClientIdle

\* `new DemoAccount(entryPoint)` sent by an account of its own, without the
\* factory.
DeployDirect ==
    /\ ~chain.accounts[createAddress(DirectDeployer)].code
    /\ Called([NoCall EXCEPT !.fn = "constructor", !.msgSender = DirectDeployer,
                             !.entryPoint = EntryPointAddr,
                             !.account = createAddress(DirectDeployer)],
              Returns([chain.accounts EXCEPT ![createAddress(DirectDeployer)] =
                           DemoAccountConstructor(EntryPointAddr)],
                      createAddress(DirectDeployer)))
    /\ ClientIdle

InitCall ==
    /\ \E msgSender \in Callers, account \in Deployed, _owner \in Owners :
         LET _factoryAdmin == msgSender IN
         Called([NoCall EXCEPT !.fn = "init", !.msgSender = msgSender,
                               !.account = account, !.owner = _owner,
                               !.factoryAdmin = _factoryAdmin, !.hadCode = TRUE],
                init(chain.accounts, account, msgSender, _owner, _factoryAdmin))
    /\ ClientIdle

SetOwnerCall ==
    /\ \E msgSender \in Callers, account \in Deployed, newOwner \in Owners :
         Called([NoCall EXCEPT !.fn = "setOwner", !.msgSender = msgSender,
                               !.account = account, !.owner = newOwner, !.hadCode = TRUE],
                setOwner(chain.accounts, account, msgSender, newOwner))
    /\ ClientIdle

\* The account's EntryPoint calls validateUserOp for an operation.
ValidateUserOpCall ==
    /\ \E account \in Deployed, valid \in BOOLEAN, opNonce \in 0..MaxAccountNonce :
         /\ chain.accounts[account].nonce < MaxAccountNonce
         /\ Called([NoCall EXCEPT !.fn = "validateUserOp",
                                  !.msgSender = chain.accounts[account].entryPoint,
                                  !.account = account, !.hadCode = TRUE],
                   validateUserOpSocial(chain.accounts, account,
                                        chain.accounts[account].entryPoint, valid, opNonce))
    /\ ClientIdle

FactoryNext ==
    \/ CreateAccountCall
    \/ GetAddressCall
    \/ SetSmartAccountOwnerCall
    \/ DeployDirect
    \/ InitCall
    \/ SetOwnerCall
    \/ ValidateUserOpCall

FactorySpec == FactoryInit /\ [][FactoryNext]_vars

(* ------------------------------------------------------------------ *)
(* Calls to the deployed DemoAccounts and to DemoPaymaster             *)
(* ------------------------------------------------------------------ *)

\* DemoPaymaster.dummyCounter is counted in 0..MaxDummyCounter.
MaxDummyCounter == 1

\* Who calls the contracts: the owners' accounts, the factory's admin and the
\* EntryPoint.
ContractCallers == Owners \cup {admin, EntryPointAddr}

\* The calls execute is asked to forward.
InnerCalls == {<<"increment", ZeroAddress>>} \cup {<<"setOwner", o>> : o \in Owners}

\* The call payload of the clients' operations.
SimpleCallData == encodeExecute(LogicAddr, 0, encodeIncrementCall)

\* An operation of the 01-simple account as the EntryPoint hands it to
\* validateUserOp, signed by `signer` or not signed at all.
SimpleOp(nonce, signer) ==
    [toEntryPointUserOp(buildUserOperation(SimpleAccountAddr, nonce, SimpleCallData, 2, 1))
        EXCEPT !.signature =
            IF signer = NoKey THEN EmptyBytes
            ELSE signUserOperationHash(signer, rawHash(SimpleAccountAddr, nonce, SimpleCallData))]

\* 65 bytes that are no signature of anything.
ZeroSignature ==
    << <<"byte", WordWidth, <<0>>>>, <<"byte", WordWidth, <<0>>>>,
       <<"byte", SigWidth - 2 * WordWidth, <<27>>>> >>

\* The sponsor payloads an operation of nonce n can carry: none, the client's
\* payload under either key, the signer's payload over the next nonce, one
\* with a 19-byte address, one with a byte appended, one with another address
\* in front, and one whose 65 bytes are no signature.
SponsorPayloads(n) ==
    {EmptyBytes}
    \cup {buildPaymasterAndData(paymasterAddress("ok"), k, SimpleAccountAddr,
                                SimpleCallData, n) : k \in Keys}
    \cup {buildPaymasterAndData(paymasterAddress("ok"), "k2", SimpleAccountAddr,
                                SimpleCallData, n + 1),
          buildPaymasterAndData(paymasterAddress("short"), "k2", SimpleAccountAddr,
                                SimpleCallData, n),
          buildPaymasterAndData(paymasterAddress("ok"), "k2", SimpleAccountAddr,
                                SimpleCallData, n) \o << <<"byte", 1, <<0>>>> >>,
          AddressHex(EntryPointAddr, AddressWidth)
              \o signMessage("k2", <<pmHash(SimpleAccountAddr, SimpleCallData, n)>>),
          paymasterAddress("ok") \o ZeroSignature}

\* The operations validatePaymasterUserOp is called with.
SponsoredOps ==
    UNION {{[toEntryPointUserOp(buildUserOperation(SimpleAccountAddr, n, SimpleCallData, 2, 1))
                EXCEPT !.paymasterAndData = p] : p \in SponsorPayloads(n)} :
           n \in 0..MaxAccountNonce}

\* The 03-social account of the identity "u1".
SocialAccount == getAddress("u1", BackendSalt, EntryPointAddr)

\* The contracts after deployment: the 01-simple account owned by k1, the
\* paymaster, and the 03-social account the factory created for "u1".
ContractInit ==
    /\ env = [demo |-> "social", ownerPk |-> "k1", paymasterPk |-> "k2",
              paymasterAddress |-> "ok", rpcUrl |-> "ok", bundlerUrl |-> "ok",
              entryPoint |-> "ok", account |-> "ok", logic |-> "ok"]
    /\ boot = "ready"
    /\ session = SessionOf("k1", "u1")
    /\ chainCode = TRUE
    /\ chainNonce = 0
    /\ accountOwner = AddressOf("k1")
    /\ runs = [r \in RunIds |-> IdleRun]
    /\ chain = [NoChain EXCEPT !.accounts =
                    createAccount(NoChain.accounts, admin, "u1", BackendSalt,
                                  EntryPointAddr, AddressOf("k1")).accounts]

\* What a call to the 01-simple account leaves alone, its owner apart.
SimpleFrame == UNCHANGED <<env, boot, session, chainCode, chainNonce, runs>>

\* createAccount for an identity whose account exists.
RepeatCreateAccountCall ==
    /\ \E msgSender \in ContractCallers, initialOwner \in Owners :
         Called([NoCall EXCEPT !.fn = "createAccount", !.msgSender = msgSender,
                               !.uuidString = "u1", !.entryPoint = EntryPointAddr,
                               !.account = SocialAccount, !.owner = initialOwner,
                               !.hadCode = chain.accounts[SocialAccount].code],
                createAccount(chain.accounts, msgSender, "u1", BackendSalt,
                              EntryPointAddr, initialOwner))
    /\ ClientIdle

SocialSetOwnerCall ==
    /\ \E msgSender \in ContractCallers, account \in Deployed, newOwner \in Owners :
         Called([NoCall EXCEPT !.fn = "setOwner", !.msgSender = msgSender,
                               !.account = account, !.owner = newOwner, !.hadCode = TRUE],
                setOwner(chain.accounts, account, msgSender, newOwner))
    /\ ClientIdle

\* validateUserOp (03-social) called by anyone, for an operation of nonce
\* opNonce signed by the key `signer`.
SocialValidateUserOpCall ==
    /\ \E msgSender \in ContractCallers, account \in Deployed, signer \in Keys,
          opNonce \in 0..MaxAccountNonce :
         LET valid == isValidSignatureNow(chain.accounts[account].owner, signer)
             out == validateUserOpSocial(chain.accounts, account, msgSender, valid, opNonce)
         IN  /\ out.accounts[account].nonce <= MaxAccountNonce
             /\ chain' = [chain EXCEPT
                    !.accounts = out.accounts,
                    !.last = [NoCall EXCEPT !.fn = "validateUserOp",
                                            !.msgSender = msgSender, !.account = account,
                                            !.signer = signer, !.opNonce = opNonce,
                                            !.hadCode = TRUE, !.revert = out.revert],
                    !.validated = IF out.revert = "none"
                                  THEN @ \cup {<<account, opNonce, signer>>} ELSE @]
    /\ ClientIdle

SocialExecuteCall ==
    /\ \E msgSender \in ContractCallers, account \in Deployed, inner \in InnerCalls :
         Called([NoCall EXCEPT !.fn = "execute", !.msgSender = msgSender,
                               !.account = account, !.owner = inner[2], !.hadCode = TRUE,
                               !.external = executeSocialTarget(chain.accounts, account,
                                                                msgSender, inner)],
                executeSocial(chain.accounts, account, msgSender, inner))
    /\ ClientIdle

\* validateUserOp (01-simple) called by anyone.
SimpleValidateUserOpCall ==
    /\ \E msgSender \in ContractCallers, signer \in Keys \cup {NoKey},
          opNonce \in 0..MaxAccountNonce, missingAccountFunds \in {0, 1} :
         LET out == validateUserOp(SimpleOp(opNonce, signer), msgSender, accountOwner)
         IN  chain' = [chain EXCEPT
                 !.last = [NoCall EXCEPT
                     !.fn = "validateUserOp", !.msgSender = msgSender,
                     !.account = SimpleAccountAddr, !.signer = signer,
                     !.opNonce = opNonce, !.hadCode = TRUE,
                     !.revert = IF out = "ok" THEN "none" ELSE out,
                     !.external = IF out = "ok" THEN _payPrefund(missingAccountFunds)
                                  ELSE "none"]]
    /\ UNCHANGED accountOwner
    /\ SimpleFrame

SimpleExecuteCall ==
    /\ \E msgSender \in ContractCallers, inner \in InnerCalls :
         LET out == executeSimple(accountOwner, SimpleAccountAddr, msgSender, inner)
         IN  /\ accountOwner' = out.owner
             /\ chain' = [chain EXCEPT
                    !.last = [NoCall EXCEPT
                        !.fn = "execute", !.msgSender = msgSender,
                        !.account = SimpleAccountAddr, !.owner = inner[2],
                        !.hadCode = TRUE, !.revert = out.revert,
                        !.external = out.external]]
    /\ SimpleFrame

SimpleSetOwnerCall ==
    /\ \E msgSender \in ContractCallers, newOwner \in Owners :
         LET out == setOwnerSimple(accountOwner, msgSender, newOwner)
         IN  /\ accountOwner' = out.owner
             /\ chain' = [chain EXCEPT
                    !.last = [NoCall EXCEPT
                        !.fn = "setOwner", !.msgSender = msgSender,
                        !.account = SimpleAccountAddr, !.owner = newOwner,
                        !.hadCode = TRUE, !.revert = out.revert]]
    /\ SimpleFrame

\* validatePaymasterUserOp is a view function: it returns or reverts.
PaymasterValidateCall ==
    /\ \E msgSender \in ContractCallers, op \in SponsoredOps :
         LET out == validatePaymasterUserOp(op, msgSender, PaymasterSigner)
         IN  chain' = [chain EXCEPT
                 !.last = [NoCall EXCEPT
                     !.fn = "validatePaymasterUserOp", !.msgSender = msgSender,
                     !.account = PaymasterAddr, !.opNonce = op.nonce, !.userOp = op,
                     !.hadCode = TRUE,
                     !.revert = IF out = "ok" THEN "none" ELSE out]]
    /\ ClientIdle

PostOpCall ==
    /\ \E msgSender \in ContractCallers :
         LET out == postOp(chain.dummyCounter, msgSender)
         IN  /\ out.dummyCounter <= MaxDummyCounter
             /\ chain' = [chain EXCEPT
                    !.dummyCounter = out.dummyCounter,
                    !.last = [NoCall EXCEPT
                        !.fn = "postOp", !.msgSender = msgSender,
                        !.account = PaymasterAddr, !.hadCode = TRUE,
                        !.revert = out.revert]]
    /\ ClientIdle

ContractNext ==
    \/ RepeatCreateAccountCall
    \/ InitCall
    \/ SetSmartAccountOwnerCall
    \/ SocialSetOwnerCall
    \/ SocialValidateUserOpCall
    \/ SocialExecuteCall
    \/ SimpleValidateUserOpCall
    \/ SimpleExecuteCall
    \/ SimpleSetOwnerCall
    \/ PaymasterValidateCall
    \/ PostOpCall

ContractSpec == ContractInit /\ [][ContractNext]_vars

(* ------------------------------------------------------------------ *)
(* Login, logout and page loads of 03-social                           *)
(* ------------------------------------------------------------------ *)

\* keccak256(stringToBytes(VITE_BACKEND_SALT)) of a build made with another
\* VITE_BACKEND_SALT.
RotatedSalt == keccak256(<< <<"text", 0, <<"rotatedSalt">>>> >>)

\* The salts a served build of the page can carry.
Salts == {BackendSalt, RotatedSalt}

\* The keys a Google redirect can carry.
RedirectKeys == {"k1"}

\* The module is evaluated: the three globals are null, backendSalt is made
\* from the build's setting, localStorage is what the last page left; init
\* begins with showLoggedOutUI.
ModuleLoaded(salt) ==
    [session EXCEPT !.ownerPk = NoKey, !.uuidString = NoUuid,
                    !.smartAccountAddress = ZeroAddress, !.backendSalt = salt,
                    !.ui = showLoggedOutUI]

\* restoreSession, on the page `loaded`: without both stored items nothing
\* happens; otherwise the globals are set from storage, the stored smart
\* account address is taken as it is, or computed by ensureSmartAccount when
\* none is stored, and the logged-in UI is shown.
restoreSession(loaded) ==
    IF loaded.savedPk = NoItem \/ loaded.savedUuid = NoItem THEN loaded
    ELSE LET computed == getAddress(loaded.savedUuid, loaded.backendSalt, EntryPointAddr)
             sa == IF loaded.savedSa # NoItem THEN loaded.savedSa ELSE computed
         IN  [loaded EXCEPT !.ownerPk = loaded.savedPk, !.uuidString = loaded.savedUuid,
                            !.smartAccountAddress = sa,
                            !.ui = showLoggedInUI(AddressOf(loaded.savedPk), sa)]

\* handleGoogleRedirect with the key pk of the redirect, on the page
\* `loaded`: the key is set and stored; the stored uuid gets the suffix
\* ":V2" and is set and stored; ensureSmartAccount computes the address,
\* which is set and stored; the logged-in UI is shown.
handleGoogleRedirect(loaded, pk) ==
    LET versionedUuid == loaded.savedUuid \o ":V2"
        sa == getAddress(versionedUuid, loaded.backendSalt, EntryPointAddr)
    IN  [loaded EXCEPT !.ownerPk = pk, !.savedPk = pk,
                       !.uuidString = versionedUuid, !.savedUuid = versionedUuid,
                       !.smartAccountAddress = sa, !.savedSa = sa,
                       !.ui = showLoggedInUI(AddressOf(pk), sa)]

\* handleGoogleRedirect when no uuid is stored: the key is set and stored,
\* then the call throws.
handleGoogleRedirectNoUuid(loaded, pk) ==
    [loaded EXCEPT !.ownerPk = pk, !.savedPk = pk]

\* A page is loaded: the page before it is gone with its runs.
PageFrame ==
    /\ runs' = [r \in RunIds |-> IdleRun]
    /\ UNCHANGED <<env, chainCode, chainNonce, accountOwner, chain>>

\* The page is loaded without a redirect key, from a build with the salt
\* `salt`: handleGoogleRedirect returns false, restoreSession runs, the
\* handlers are registered.
Reload ==
    \E salt \in Salts :
       /\ session' = restoreSession(ModuleLoaded(salt))
       /\ boot' = "ready"
       /\ PageFrame

\* The login button is clicked and the browser comes back from Google with
\* a key: startGoogleLogin has left a uuid in storage or has not, the page
\* is loaded, handleGoogleRedirect runs; init registers the handlers unless
\* it has thrown.
GoogleLogin ==
    /\ boot = "ready" /\ session.ui.googleLogin
    /\ \E pk \in RedirectKeys, left \in Uuids \cup {NoItem}, salt \in Salts :
         LET loaded == [ModuleLoaded(salt) EXCEPT !.savedUuid = left] IN
         IF left = NoItem
         THEN /\ session' = handleGoogleRedirectNoUuid(loaded, pk)
              /\ boot' = "Missing aa-uuid from Google redirect"
         ELSE /\ session' = handleGoogleRedirect(loaded, pk)
              /\ boot' = "ready"
    /\ PageFrame

\* logout: the three globals are null, the three items are removed, the
\* logged-out UI is shown.
logout(page) ==
    [page EXCEPT !.ownerPk = NoKey, !.smartAccountAddress = ZeroAddress,
                 !.uuidString = NoUuid,
                 !.savedPk = NoItem, !.savedSa = NoItem, !.savedUuid = NoItem,
                 !.ui = showLoggedOutUI]

\* The logout button is clicked; the runs in flight go on.
Logout ==
    /\ boot = "ready" /\ session.ui.logoutBtn
    /\ session' = logout(session)
    /\ UNCHANGED <<env, boot, chainCode, chainNonce, accountOwner, runs, chain>>

\* The sendOp button is clicked: it is not disabled.
SendOpClick(r) ==
    /\ ~session.ui.sendOpDisabled
    /\ StartSendUserOp(r)

\* The page as a first visit finds it: nothing stored, init done.
SessionInit ==
    /\ env = [demo |-> "social", ownerPk |-> NoKey, paymasterPk |-> "k2",
              paymasterAddress |-> "ok", rpcUrl |-> "ok", bundlerUrl |-> "ok",
              entryPoint |-> "ok", account |-> "ok", logic |-> "ok"]
    /\ boot = "ready"
    /\ session = NoSession
    /\ chainCode \in BOOLEAN
    /\ chainNonce = 0
    /\ accountOwner = AddressOf("k1")
    /\ runs = [r \in RunIds |-> IdleRun]
    /\ chain = WithBalances(<<MIN_AA_BALANCE, 0>>)

SessionNext ==
    \/ Reload
    \/ GoogleLogin
    \/ Logout
    \/ \E r \in RunIds : SendOpClick(r)
    \/ \E r \in RunIds : GetAddressAnswered(r)
    \/ \E r \in RunIds : EnsureSmartAccountDone(r)
    \/ \E r \in RunIds : GetCodeAnswered(r)
    \/ \E r \in RunIds : GetNonceAnswered(r)
    \/ \E r \in RunIds : PaymasterSignedSocial(r)
    \/ \E r \in RunIds : UserOpHashAnswered(r)
    \/ \E r \in RunIds : OwnerSignedSocial(r)
    \/ \E r \in RunIds : SubmitAnsweredSocial(r)

SessionSpec == SessionInit /\ [][SessionNext]_vars

(* ------------------------------------------------------------------ *)
(* Claims                                                              *)
(* ------------------------------------------------------------------ *)

\* The positions of sendUserOp at which its operation has been built.
SocialBuilt == {"pm_sign_social", "getUserOpHash", "owner_sign_social", "submit_social"}

\* The positions of main at which its operation has been built.
MainBuilt == {"owner_sign", "pm_sign", "submit"}

\* The operations that have been handed to the relay.
Sent(r) == Len(runs[r].sent) > 0

\* factory address followed by the encoded createAccount call.
IsCreateAccountInit(initCode) ==
    /\ Len(initCode) = 2
    /\ initCode[1] = <<"address", AddressWidth, FactoryAddr>>
    /\ initCode[2][1] = "calldata"
    /\ initCode[2][3][1] = "createAccount"

\* C1: in a run of sendUserOp the init payload of the operation is empty
\* exactly when the existence check of that run (step 1) reported code, and
\* is the factory address followed by the createAccount call exactly when it
\* reported none, whatever the chain says by the time the payload is built
\* or the operation is sent.
C1_InitPayloadFollowsCheck ==
    \A r \in RunIds :
        runs[r].pc \in SocialBuilt =>
            /\ runs[r].exists <=> runs[r].userOp.initCode = EmptyBytes
            /\ ~runs[r].exists <=> IsCreateAccountInit(runs[r].userOp.initCode)

\* Two runs have sent their operations, each after the chain flipped the
\* other way between its check and its submission.
C1_Witness ==
    \E r, q \in RunIds :
        /\ runs[r].pc = "submit_social" /\ runs[q].pc = "submit_social"
        /\ runs[r].exists /\ ~runs[r].codeAtSubmit
        /\ runs[r].sent[1].initCode = EmptyBytes
        /\ ~runs[q].exists /\ runs[q].codeAtSubmit
        /\ IsCreateAccountInit(runs[q].sent[1].initCode)

\* C2: every operation handed to the relay has a non-empty init payload if
\* and only if no code is at the sender's address when it is handed over.
C2_InitPayloadMatchesChainAtSubmit ==
    \A r \in RunIds :
        runs[r].pc = "submit_social" =>
            (runs[r].sent[1].initCode # EmptyBytes <=> ~runs[r].codeAtSubmit)

\* The nonce packed into a principal digest: of main's rawHash the second
\* field, of the EntryPoint's hash the nonce of the operation it was given.
OwnerDigestNonce(d) ==
    IF d[3][1][1] = "userOp" THEN d[3][1][3][1].nonce ELSE d[3][2][3][1]

\* The nonce packed into a sponsor digest: its last field.
SponsorDigestNonce(d) == d[3][Len(d[3])][3][1]

\* C3: in every run the nonce of the operation, the nonce in the digest the
\* owner signs and the nonce in the digest the sponsor signs are the value
\* the EntryPoint returned in that run.
C3_OneNoncePerRun ==
    \A r \in RunIds :
        runs[r].pc \in SocialBuilt \cup MainBuilt =>
            /\ BigInt(runs[r].userOp.nonce) = runs[r].nonceAtRead
            /\ runs[r].ownerDigest # NoDigest =>
                   OwnerDigestNonce(runs[r].ownerDigest) = runs[r].nonceAtRead
            /\ runs[r].pmDigest # NoDigest =>
                   SponsorDigestNonce(runs[r].pmDigest) = runs[r].nonceAtRead
            /\ Sent(r) => BigInt(runs[r].sent[1].nonce) = runs[r].nonceAtRead

\* Two runs in flight have sent operations with the different nonces each
\* of them read, both digests signed.
C3_Witness ==
    \E r, q \in RunIds :
        /\ Sent(r) /\ Sent(q)
        /\ runs[r].nonceAtRead = 0 /\ runs[q].nonceAtRead > 0
        /\ runs[q].pmDigest # NoDigest /\ runs[q].ownerDigest # NoDigest
        /\ BigInt(runs[q].sent[1].nonce) = runs[q].nonceAtRead

\* C4: every operation handed to the relay carries the owner's signature,
\* and a run whose owner signature failed has issued no submit request.
C4_SignedBeforeSubmit ==
    \A r \in RunIds :
        /\ Sent(r) => ByteLen(runs[r].sent[1].signature) = SigWidth
        /\ runs[r].sendRequests > 0 /\ InFlight(r) => Sent(r)
        /\ runs[r].pc = "error" /\ runs[r].failure \in {"owner_sign", "owner_sign_social"}
               => runs[r].sendRequests = 0

\* An operation has been sent with its 65-byte signature.
C4_Witness ==
    \E r \in RunIds :
        /\ runs[r].pc \in {"submit", "submit_social"}
        /\ runs[r].sendRequests = 1
        /\ ByteLen(runs[r].sent[1].signature) = SigWidth
        /\ runs[r].sent[1].signature = runs[r].userOp.signature

\* paymaster address (20 bytes) followed by the sponsor signature (65 bytes).
IsSponsorPayload(pnd) ==
    /\ ByteLen(pnd) = AddressWidth + SigWidth
    /\ pnd[1] = <<"address", AddressWidth, PaymasterAddr>>
    /\ ByteLen(Tail(pnd)) = SigWidth

\* C5: the sponsor payload of every operation handed to the relay is empty
\* or the 85-byte form: empty in 01-simple, the 85-byte form in
\* 02-paymaster, and in 03-social the 85-byte form with a paymaster signer
\* key and empty without one.
C5_SponsorPayloadShape ==
    \A r \in RunIds :
        Sent(r) =>
            LET pnd == runs[r].sent[1].paymasterAndData IN
            /\ pnd = EmptyBytes \/ IsSponsorPayload(pnd)
            /\ env.demo = "simple" => pnd = EmptyBytes
            /\ env.demo = "paymaster" => IsSponsorPayload(pnd)
            /\ env.demo = "social" =>
                   IF env.paymasterPk = NoKey THEN pnd = EmptyBytes
                   ELSE IsSponsorPayload(pnd)

\* The digest a personal-message signature was made over: the raw digest
\* inside the wrapped hash that was signed.
SignedDigest(sig) == sig[1][3][2][3][2]

\* hash(sender || nonce || hash(call payload)) of an operation as sent.
PrincipalFormula(op) ==
    keccak256(<< <<"address", AddressWidth, op.sender>>,
                 <<"uint256", WordWidth, <<BigInt(op.nonce)>>>>,
                 <<"keccak256", WordWidth, op.callData>> >>)

\* C6 as stated: in every pipeline the owner signs
\* hash(sender || nonce || hash(call payload)).
C6_PrincipalDigestEverywhere ==
    \A r \in RunIds :
        Sent(r) => SignedDigest(runs[r].sent[1].signature) = PrincipalFormula(runs[r].sent[1])

\* C6 as amended: in 01-simple and 02-paymaster the owner signs
\* hash(sender || nonce || hash(call payload)); in 03-social the owner signs
\* the hash the EntryPoint returns for the whole operation, sponsor payload
\* and init payload included and the signature still empty, which is not
\* that formula.
C6_PrincipalDigestPerPipeline ==
    \A r \in RunIds :
        Sent(r) =>
            LET op == runs[r].sent[1]
                d == SignedDigest(op.signature)
            IN  IF env.demo = "social"
                THEN /\ d[3][1][1] = "userOp"
                     /\ d[3][1][3][1] = toEntryPointUserOp([op EXCEPT !.signature = EmptyBytes])
                     /\ d # PrincipalFormula(op)
                ELSE d = PrincipalFormula(op)

\* Operations have been sent by main with a nonce above zero.
C6_Witness ==
    \E r \in RunIds :
        /\ Sent(r) /\ env.demo = "paymaster"
        /\ runs[r].nonceAtRead > 0
        /\ SignedDigest(runs[r].sent[1].signature) = PrincipalFormula(runs[r].sent[1])

\* C7: the digest the clients have the sponsor sign is
\* hash(sender || call payload || nonce), the call payload not hashed; it is
\* the digest DemoPaymaster.validatePaymasterUserOp recomputes from the
\* operation, so a well-formed sponsor payload signed by the paymaster's
\* signer is accepted; and it is not the principal digest.
C7_SponsorDigestMatchesPaymaster ==
    \A r \in RunIds :
        runs[r].pmDigest # NoDigest =>
            LET run == runs[r]
                decoded == toEntryPointUserOp(run.userOp)
            IN  /\ run.pmDigest = PaymasterDigest(decoded)
                /\ run.pmDigest[3] =
                       << <<"address", AddressWidth, run.sender>> >> \o run.callData
                       \o << <<"uint256", WordWidth, <<run.nonceAtRead>>>> >>
                /\ run.pmDigest # computeUserOpHash(run.sender, run.nonceAtRead, run.callData)
                /\ Sent(r) /\ IsSponsorPayload(run.sent[1].paymasterAndData) =>
                       LET op == toEntryPointUserOp(run.sent[1])
                           signerPk == IF env.demo = "social" THEN env.paymasterPk
                                       ELSE PaymasterPk
                       IN  /\ SignedDigest(Tail(op.paymasterAndData)) = PaymasterDigest(op)
                           /\ validatePaymasterUserOp(op, EntryPointAddr, AddressOf(signerPk))
                                  = "ok"

\* The relay has judged a sponsored operation of 02-paymaster and the
\* paymaster accepted it.
C7_Witness ==
    \E r \in RunIds :
        /\ Sent(r) /\ env.demo = "paymaster"
        /\ IsSponsorPayload(runs[r].sent[1].paymasterAndData)
        /\ runs[r].pmValidation = "ok"

Polling == {"poll_fetch", "poll_sleep"}
Settled == "count_after"

\* C9: waitForReceipt is pending after every answer without a receipt and
\* sleeps once before each further query; it is settled by the first answer
\* with a receipt, returns that receipt and queries no more: k answers
\* without a receipt and then a receipt are k + 1 queries.
C9_PollerStateMachine ==
    \A r \in RunIds :
        runs[r].pc \in Polling \cup {Settled} =>
            LET run == runs[r]
                n == Len(run.pollTrace)
            IN  /\ run.queries = run.slept + 1
                /\ run.queries = n + (IF run.pc = "poll_fetch" THEN 1 ELSE 0)
                /\ \A i \in 1..n :
                       run.pollTrace[i] = "settled" <=> (i = n /\ run.pc = Settled)
                /\ run.pc = Settled =>
                       /\ n > 0 /\ run.pollTrace[n] = "settled"
                       /\ run.receipt \in Receipts /\ run.receipt = run.lastAnswer
                /\ run.pc \in Polling => run.receipt = NoReceipt

\* Three answers without a receipt, then a receipt.
C9_Witness ==
    \E r \in RunIds :
        /\ runs[r].pc = Settled
        /\ runs[r].pollTrace = <<"pending", "pending", "pending", "settled">>
        /\ runs[r].queries = 4
        /\ runs[r].receipt \in Receipts

\* C10: waitForReceipt has no bound on its retries. After an answer without
\* a result it is still polling and its timer leads to the next query
\* whatever the number of queries made (up to the bound of the model); it
\* leaves the loop only with a receipt or by a query that throws.
C10_PollerUnbounded ==
    /\ [](\A r \in RunIds :
            /\ runs[r].pc = "poll_sleep" /\ runs[r].queries < MaxPolls
                   => ENABLED PollTimer(r)
            /\ Len(runs[r].pollTrace) > 0
               /\ runs[r].pollTrace[Len(runs[r].pollTrace)] = "pending"
                   => runs[r].pc \in Polling)
    /\ [][\A r \in RunIds :
            runs[r].pc \in Polling /\ runs'[r].pc \notin Polling =>
                \/ runs'[r].pc = Settled /\ runs'[r].receipt \in Receipts
                \/ /\ runs[r].pc = "poll_fetch"
                   /\ runs'[r].pc = "error" /\ runs'[r].failure = "poll_fetch"]_vars

\* As many answers without a result as the model allows queries, and the
\* poller is still pending.
C10_Witness ==
    \E r \in RunIds :
        /\ runs[r].pc = "poll_sleep"
        /\ Len(runs[r].pollTrace) = MaxPolls
        /\ \A i \in 1..MaxPolls : runs[r].pollTrace[i] = "pending"

\* C11: once the caller has asked waitForReceipt to stop, the poller issues
\* no further query.
C11_StopEndsPolling ==
    \A r \in RunIds :
        runs[r].stopAt > 0 => runs[r].queries = runs[r].stopAt

\* C12: in every pipeline a run whose submit request was answered with
\* anything but a non-empty string result, or not answered at all, ends as a
\* rejection: it is not polling for a receipt and has not reported the
\* operation as sent.
C12_OnlyHandleIsSuccess ==
    \A r \in RunIds :
        /\ runs[r].sendAnswer \notin {"none", "handle"} => runs[r].pc = "rejected"
        /\ runs[r].failure \in {"submit", "submit_social"} => runs[r].pc = "error"

\* C13: a run issues at most one eth_sendUserOperation request, whatever
\* the relay answers, and is in waitForReceipt only after that one request
\* was answered with a tracking hash.
C13_SubmitOnce ==
    \A r \in RunIds :
        /\ runs[r].sendRequests <= 1
        /\ runs[r].sendAnswer # "none" => runs[r].sendRequests = 1
        /\ runs[r].pc \in Polling \cup {Settled} =>
               /\ runs[r].sendRequests = 1
               /\ runs[r].sendAnswer = "handle"

\* One run was rejected by the relay after its one request, and another run
\* is in its second query after its one request.
C13_Witness ==
    \E r, q \in RunIds :
        /\ runs[r].pc = "rejected" /\ runs[r].sendAnswer = "error"
        /\ runs[r].sendRequests = 1
        /\ runs[q].pc = "poll_fetch" /\ runs[q].queries = 2
        /\ runs[q].sendRequests = 1

\* The addresses AccountFactory computes for the identities of the model.
FactoryAddrs ==
    {getAddress(u, BackendSalt, e) : u \in FactoryUuids, e \in FactoryEntryPoints}

\* C14: getAddress returns the CREATE2 address of (factory, uuidString,
\* backendSalt, entryPoint), whether code is there or not and whatever the
\* state of the accounts; createAccount with the same three parameters, for
\* any initialOwner, returns that address and the account it deploys is
\* there and nowhere else.
C14_GetAddressPure ==
    LET call == chain.last
        computed == getAddress(call.uuidString, BackendSalt, call.entryPoint)
    IN  /\ call.fn = "getAddress" =>
               call.result = create2(FactoryAddr, CreationBytecode(call.entryPoint),
                                     FactorySalt(call.uuidString, BackendSalt))
        /\ call.fn = "createAccount" /\ call.revert = "none" =>
               /\ call.result = computed
               /\ chain.accounts[computed].code
               /\ chain.accounts[computed].initBy = FactoryAddr
        /\ \A a \in AccountAddrs :
               chain.accounts[a].initBy = FactoryAddr => a \in FactoryAddrs

\* getAddress is asked about an account that is deployed, whose nonce has
\* advanced and whose owner is no longer the first one.
C14_Witness ==
    /\ chain.last.fn = "getAddress"
    /\ chain.last.hadCode
    /\ chain.accounts[chain.last.result].nonce > 0
    /\ chain.accounts[chain.last.result].initBy = FactoryAddr
    /\ \E b \in FactoryAddrs : ~chain.accounts[b].code

\* C15: a createAccount call for parameters without an account deploys it,
\* initialised with the call's initialOwner and the factory's admin and with
\* nonce 0; a call for parameters whose account is deployed returns its
\* address and changes nothing, whoever calls and whatever initialOwner is.
\* No call touches another account.
C15_CreateAccountIdempotent ==
    [][chain'.last.fn = "createAccount" =>
         LET call == chain'.last
             a == call.account
         IN  /\ call.revert = "none" /\ call.result = a
             /\ \A b \in AccountAddrs \ {a} : chain'.accounts[b] = chain.accounts[b]
             /\ IF chain.accounts[a].code
                THEN chain'.accounts[a] = chain.accounts[a]
                ELSE chain'.accounts[a] =
                         [code |-> TRUE, entryPoint |-> call.entryPoint,
                          owner |-> call.owner, factoryAdmin |-> admin, nonce |-> 0,
                          initialized |-> TRUE, initBy |-> FactoryAddr]]_vars

\* createAccount has been called again, not by the admin and with another
\* initialOwner, for an account whose nonce has advanced.
C15_Witness ==
    /\ chain.last.fn = "createAccount"
    /\ chain.last.hadCode
    /\ chain.last.msgSender # admin
    /\ chain.last.owner # chain.accounts[chain.last.account].owner
    /\ chain.accounts[chain.last.account].nonce > 0

\* C16: setSmartAccountOwner called by the admin for a deployed account
\* succeeds and makes newOwner the owner; called by anyone else, or for an
\* account that is not deployed, it reverts.
C16_RecoveryThroughFactory ==
    chain.last.fn = "setSmartAccountOwner" =>
        IF chain.last.msgSender = admin /\ chain.last.hadCode
        THEN /\ chain.last.revert = "none"
             /\ chain.accounts[chain.last.account].owner = chain.last.owner
        ELSE chain.last.revert # "none"

\* C17: an init call of an account that is initialised reverts with
\* "Already initialized" and changes nothing; one of an account that is not
\* sets owner and factoryAdmin and marks it initialised; an account stays
\* initialised, by the same sender, ever after; and an account at an address
\* of the factory is initialised as soon as it has code, by the factory.
C17_InitOnce ==
    /\ [](\A a \in FactoryAddrs :
            chain.accounts[a].code =>
                chain.accounts[a].initialized /\ chain.accounts[a].initBy = FactoryAddr)
    /\ [][/\ \A a \in AccountAddrs :
               chain.accounts[a].initialized =>
                   /\ chain'.accounts[a].initialized
                   /\ chain'.accounts[a].initBy = chain.accounts[a].initBy
          /\ chain'.last.fn = "init" =>
               LET call == chain'.last
                   a == call.account
               IN  IF chain.accounts[a].initialized
                   THEN /\ call.revert = "Already initialized"
                        /\ chain'.accounts = chain.accounts
                   ELSE /\ call.revert = "none"
                        /\ chain'.accounts =
                               [chain.accounts EXCEPT ![a] =
                                    [@ EXCEPT !.initialized = TRUE, !.owner = call.owner,
                                              !.factoryAdmin = call.factoryAdmin,
                                              !.initBy = call.msgSender]]]_vars

\* init has been called, with other arguments, on an account the factory
\* created, and has reverted; an account deployed without the factory has
\* been initialised by its first caller.
C17_Witness ==
    /\ chain.last.fn = "init"
    /\ chain.last.revert = "Already initialized"
    /\ chain.last.account \in FactoryAddrs
    /\ chain.last.owner # chain.accounts[chain.last.account].owner
    /\ \E d \in AccountAddrs \ FactoryAddrs :
           chain.accounts[d].initialized /\ chain.accounts[d].initBy \in Callers

\* C18: a run starts from a blank operation, and once the owner's signature
\* is in the operation no field of it changes while the run goes on.
C18_FrozenOnceSigned ==
    [][\A r \in RunIds :
         /\ runs[r].pc = "idle" /\ runs'[r].pc # "idle" => runs'[r].userOp = BlankOp
         /\ runs[r].userOp.signature # EmptyBytes /\ runs'[r].pc \notin Terminal =>
                runs'[r].userOp = runs[r].userOp]_vars

\* C19: in 03-social two runs of sendUserOp are never in flight together,
\* and no two operations carrying the same nonce of the same sender have
\* been handed to the relay.
C19_SingleFlight ==
    \A r, q \in RunIds :
        r # q =>
            /\ ~(InFlight(r) /\ InFlight(q))
            /\ ~(/\ Sent(r) /\ Sent(q)
                 /\ runs[r].sent[1].sender = runs[q].sent[1].sender
                 /\ runs[r].sent[1].nonce = runs[q].sent[1].nonce)

\* The positions of a run at which the nonce has not been read yet.
BeforeNonce ==
    {"count_before", "prefund", "prefund_owner", "topup_send", "topup_wait",
     "balance", "nonce_read",
     "getAddress", "getCode_ensure", "getCode", "getNonce"}

\* C20: a run that is in flight is suspended at one call. Until the
\* existence check and the nonce read of the run have been answered its
\* operation is blank and no digest exists; the operation handed to the relay
\* is the one with every signature of the run attached; a run is in
\* waitForReceipt only after its submit request was answered.
C20_SequentialCalls ==
    \A r \in RunIds :
        LET run == runs[r] IN
        /\ run.pc \in Terminal \cup Awaiting \cup {"poll_sleep"}
        /\ run.pc \in BeforeNonce =>
               /\ run.userOp = BlankOp
               /\ run.ownerDigest = NoDigest /\ run.pmDigest = NoDigest
               /\ ~Sent(r)
        /\ Sent(r) =>
               /\ run.sent[1] = run.userOp
               /\ run.sent[1].signature # EmptyBytes
               /\ run.ownerDigest # NoDigest
               /\ run.pmDigest # NoDigest => run.sent[1].paymasterAndData # EmptyBytes
        /\ InFlight(r) /\ ~Sent(r) => run.queries = 0 /\ run.sendAnswer = "none"
        /\ run.pc \in Polling => Sent(r) /\ run.sendAnswer = "handle" /\ run.queries >= 1

\* A sponsored run is in its second receipt query, after a nonce above zero
\* was read, both signatures made and the operation submitted.
C20_Witness ==
    \E r \in RunIds :
        /\ env.demo = "paymaster"
        /\ runs[r].pc = "poll_fetch" /\ runs[r].queries = 2
        /\ runs[r].nonceAtRead > 0
        /\ runs[r].pmDigest # NoDigest /\ runs[r].ownerDigest # NoDigest

(* ------------------------------------------------------------------ *)
(* C21: configuration errors of 01-simple and 02-paymaster             *)
(* ------------------------------------------------------------------ *)

\* The names of the settings the two clients read.
SettingNames ==
    {"SCROLL_RPC", "BUNDLER_URL", "SC_ENTRYPOINT_ADDRESS", "SC_ACCOUNT_ADDRESS",
     "SC_DEMOLOGIC_ADDRESS", "SC_PAYMASTER_ADDRESS", "PRIVATE_KEY",
     "PAYMASTER_PRIVATE_KEY"}

\* The errors that name a setting.
NamedErrors ==
    {"Missing env var: " \o n : n \in SettingNames}
    \cup {"Invalid address in " \o n : n \in SettingNames}
    \cup {n \o " must start with 0x" : n \in SettingNames}

\* A required setting is missing, an address setting is not an address, or
\* a key setting does not start with 0x.
BadSetting ==
    /\ env.demo \in {"simple", "paymaster"}
    /\ \/ env.rpcUrl = "missing" \/ env.bundlerUrl = "missing"
       \/ env.entryPoint # "ok" \/ env.account # "ok" \/ env.logic # "ok"
       \/ env.ownerPk \in {NoKey, UnprefixedKey}
       \/ /\ env.demo = "paymaster"
          /\ env.paymasterAddress # "ok" \/ env.paymasterPk = UnprefixedKey

\* C21: in 01-simple and 02-paymaster, when a required setting is missing, an
\* address setting is not a valid address or a key setting does not start
\* with 0x, start-up ends in an error that names a setting, and no run ever
\* leaves its idle state: no RPC read, no relay call, no transaction.
C21_ConfigErrorIsFatal ==
    BadSetting =>
        /\ boot \in {"loading"} \cup NamedErrors
        /\ \A r \in RunIds : runs[r] = IdleRun

C21_Witness ==
    /\ BadSetting
    /\ env.demo = "paymaster" /\ env.paymasterAddress = "short"
    /\ env.rpcUrl = "ok" /\ env.bundlerUrl = "ok"
    /\ env.entryPoint = "ok" /\ env.account = "ok" /\ env.logic = "ok"
    /\ boot = "Invalid address in SC_PAYMASTER_ADDRESS"

(* ------------------------------------------------------------------ *)
(* C22: buildUserOperation                                             *)
(* ------------------------------------------------------------------ *)

\* text is the hex string of v: hexadecimal digits without leading zeros
\* that BigInt converts back to v.
HexOf(text, v) ==
    /\ IsHexDigits(text)
    /\ Len(text) = 1 \/ text[1] # 0
    /\ BigInt(text) = v

\* C22: the operation buildUserOperation returns carries its inputs (sender,
\* nonce, call payload, the two fee rates; integers as hex strings without
\* leading zeros that convert back to the input), an empty signature, sponsor
\* payload and init payload, and the gas limits 250000, 250000 and 50000.
C22_BuildCarriesInputs ==
    \A r \in RunIds :
        runs[r].pc = "owner_sign" =>
            LET run == runs[r]
                op == run.userOp
            IN  /\ op.sender = SimpleAccountAddr
                /\ op.callData = run.callData
                /\ HexOf(op.nonce, run.nonceBN)
                /\ HexOf(op.maxFeePerGas, run.fees[1])
                /\ HexOf(op.maxPriorityFeePerGas, run.fees[2])
                /\ op.signature = EmptyBytes
                /\ op.paymasterAndData = EmptyBytes
                /\ op.initCode = EmptyBytes
                /\ HexOf(op.callGasLimit, 250000)
                /\ HexOf(op.verificationGasLimit, 250000)
                /\ HexOf(op.preVerificationGas, 50000)

(* ------------------------------------------------------------------ *)
(* C24 to C27: the deployed contracts                                  *)
(* ------------------------------------------------------------------ *)

\* The functions only the EntryPoint may call.
EntryPointOnly == {"validateUserOp", "execute", "validatePaymasterUserOp", "postOp"}

\* The reasons those functions turn a caller away with.
NotEntryPoint == {"not from entrypoint", "only EP", "Only EntryPoint", "only entrypoint"}

\* The contracts' storage: the accounts, the owner of the 01-simple account,
\* the paymaster's counter.
Storage == <<chain.accounts, accountOwner, chain.dummyCounter>>

\* The step is a call of one of the functions in fns.
CallOf(fns) == chain'.last.fn \in fns

C25_NonceReplayProtection ==
    [][/\ CallOf({"validateUserOp"}) /\ chain'.last.account \in AccountAddrs =>
            LET call == chain'.last
                before == chain.accounts[call.account]
                after == chain'.accounts[call.account]
            IN  IF call.revert = "none"
                THEN /\ call.msgSender = before.entryPoint
                     /\ AddressOf(call.signer) = before.owner
                     /\ call.opNonce = before.nonce
                     /\ after.nonce = before.nonce + 1
                     /\ <<call.account, call.opNonce, call.signer>> \notin chain.validated
                ELSE after.nonce = before.nonce
       /\ \A a \in AccountAddrs : chain'.accounts[a].nonce >= chain.accounts[a].nonce]_vars

\* The EntryPoint has presented an accepted operation again and was refused.
C25_Witness ==
    /\ chain.last.fn = "validateUserOp" /\ chain.last.account = SocialAccount
    /\ chain.last.msgSender = EntryPointAddr
    /\ AddressOf(chain.last.signer) = chain.accounts[SocialAccount].owner
    /\ chain.last.revert = "Bad nonce"
    /\ <<SocialAccount, chain.last.opNonce, chain.last.signer>> \in chain.validated

\* C26: the owner of an initialised account changes only in a setOwner call
\* that succeeds, sent by the current owner (01-simple) or by the current
\* owner or the factoryAdmin (03-social), and becomes the owner that call
\* names; a setOwner call by anyone else reverts, and like every other call
\* (validateUserOp, execute, a repeated init or createAccount) it leaves the
\* owner as it was.
C26_OwnerChangesBySetOwner ==
    [][/\ \A a \in AccountAddrs :
            LET before == chain.accounts[a]
                call == chain'.last
            IN  /\ before.initialized /\ chain'.accounts[a].owner # before.owner =>
                      /\ call.fn = "setOwner" /\ call.account = a
                      /\ call.revert = "none"
                      /\ call.msgSender \in {before.owner, before.factoryAdmin}
                      /\ chain'.accounts[a].owner = call.owner
                /\ call.fn = "setOwner" /\ call.account = a =>
                      (call.revert = "none" <=>
                           call.msgSender \in {before.owner, before.factoryAdmin})
       /\ accountOwner' # accountOwner =>
              /\ chain'.last.fn = "setOwner" /\ chain'.last.account = SimpleAccountAddr
              /\ chain'.last.revert = "none"
              /\ chain'.last.msgSender = accountOwner
              /\ accountOwner' = chain'.last.owner
       /\ chain'.last.fn = "setOwner" /\ chain'.last.account = SimpleAccountAddr =>
              (chain'.last.revert = "none" <=> chain'.last.msgSender = accountOwner)]_vars

\* Both accounts have changed hands, and an execute that forwards setOwner
\* to the 03-social account itself has failed.
C26_Witness ==
    /\ accountOwner = AddressOf("k2")
    /\ chain.accounts[SocialAccount].owner = AddressOf("k2")
    /\ chain.last.fn = "execute" /\ chain.last.account = SocialAccount
    /\ chain.last.external = "setOwner"
    /\ chain.last.revert = "Execution failed"

\* C27: validatePaymasterUserOp returns exactly when its caller is the
\* EntryPoint, paymasterAndData is 85 bytes long and bytes 20..85 are the
\* configured signer's personal-message signature of
\* hash(sender || callData || nonce); otherwise it reverts; and it never
\* changes the storage of the paymaster or of any account.
C27_SponsorsExactly ==
    /\ [](chain.last.fn = "validatePaymasterUserOp" =>
            LET op == chain.last.userOp
                pnd == op.paymasterAndData
            IN  chain.last.revert = "none" <=>
                    /\ chain.last.msgSender = EntryPointAddr
                    /\ ByteLen(pnd) = AddressWidth + SigWidth
                    /\ \E k \in Keys :
                          /\ AddressOf(k) = PaymasterSigner
                          /\ SliceFrom(pnd, AddressWidth, AddressWidth + SigWidth) =
                                 signMessage(k, <<pmHash(op.sender, op.callData, op.nonce)>>))
    /\ [][CallOf({"validatePaymasterUserOp"}) =>
              Storage' = Storage /\ chain'.validated = chain.validated]_vars

\* The EntryPoint's call returned for a payload that carries another address
\* than the paymaster's in front of the signer's signature.
C27_Witness ==
    /\ chain.last.fn = "validatePaymasterUserOp"
    /\ chain.last.revert = "none"
    /\ chain.last.userOp.paymasterAndData[1] = <<"address", AddressWidth, EntryPointAddr>>
    /\ chain.dummyCounter = 1

(* ------------------------------------------------------------------ *)
(* C28: ensureAaFunded                                                 *)
(* ------------------------------------------------------------------ *)

\* The positions of ensureAaFunded after its first balance read.
Funding == {"prefund_owner", "topup_send", "topup_wait"}

\* C28: ensureAaFunded sends no transaction when the smart account holds the
\* minimum; otherwise needed is the minimum less the balance, an owner
\* holding no more than needed ends the process without a transfer, and any
\* other owner sends one transfer of exactly needed; the function returns
\* after that transfer is mined, and when it returns the account holds at
\* least the minimum.
C28_TopUpNeededAndAffordable ==
    /\ [](\A r \in RunIds :
            LET run == runs[r] IN
            /\ Len(run.topUps) <= 1
            /\ run.pc \in Funding => run.needed > 0
            /\ run.pc = "prefund_owner" =>
                   run.topUps = << >> /\ run.needed = MIN_AA_BALANCE - chain.aaBalance
            /\ run.topUps # << >> => run.topUps = <<run.needed>> /\ run.needed > 0
            /\ run.pc = "nonce_read" =>
                   /\ chain.aaBalance >= MIN_AA_BALANCE
                   /\ run.topUps # << >> => run.topUpMined)
    /\ [][\A r \in RunIds :
             LET run == runs[r] IN
             /\ run.pc = "prefund" /\ chain.aaBalance >= MIN_AA_BALANCE =>
                    runs'[r].pc \in {"nonce_read", "error"} /\ runs'[r].topUps = << >>
             /\ run.pc = "prefund_owner" /\ chain.ownerBalance <= run.needed =>
                    runs'[r].pc \in {"exited", "error"} /\ runs'[r].topUps = << >>
             /\ run.pc = "prefund_owner" /\ runs'[r].pc = "topup_send" =>
                    chain.ownerBalance > run.needed /\ runs'[r].topUps = <<run.needed>>
             /\ runs'[r].pc = "exited" => chain' = chain]_vars

\* ensureAaFunded has returned after a top-up of 3 (of 0.003 ether) that
\* brought the account from 2 to the minimum.
C28_Witness ==
    \E r \in RunIds :
        /\ runs[r].pc = "nonce_read" /\ runs[r].topUps = <<3>> /\ runs[r].topUpMined
        /\ chain.aaBalance = MIN_AA_BALANCE /\ chain.ownerBalance = 1


\* The address the factory derives from the uuid and the salt the page holds.
DerivedNow == getAddress(session.uuidString, session.backendSalt, EntryPointAddr)

\* C23: in 03-social the smart-account address the session holds, the one the
\* page shows and the sender of every submitted operation are the address
\* the factory's getAddress derives from the current uuid, backend salt and
\* EntryPoint: never one derived from older inputs.
C23_CachedAddressIsDerived ==
    /\ session.smartAccountAddress # ZeroAddress => session.smartAccountAddress = DerivedNow
    /\ session.ui.smartAccount # NoText => session.ui.smartAccount = DerivedNow
    /\ \A r \in RunIds :
         runs[r].pc = "submit_social" =>
            runs[r].sent[1].sender
               = getAddress(runs[r].uuidArg, session.backendSalt, EntryPointAddr)

\* The logged-out UI is on the page.
LoggedOutShown == session.ui.googleLogin /\ ~session.ui.logoutBtn

\* Run r begins in this step, by a call of sendUserOp.
SendUserOpCalled(r) ==
    /\ env.demo = "social"
    /\ runs[r].pc = "idle" /\ runs'[r].pc # "idle"

\* C29: in 03-social a call of sendUserOp without a session does nothing on
\* the network: with no owner key it returns at once, with a key and no uuid
\* it throws at once, and neither awaits a request nor changes the session;
\* and the sendOp button is disabled whenever the logged-out UI is shown.
C29_NoSessionNoNetwork ==
    /\ [](LoggedOutShown => session.ui.sendOpDisabled)
    /\ [](\A r \in RunIds :
            runs[r].failure \in {"not logged in", "Missing uuidString"} =>
               runs[r].sendRequests = 0 /\ runs[r].sent = << >>)
    /\ [][\A r \in RunIds :
            SendUserOpCalled(r) /\ (session.ownerPk = NoKey \/ session.uuidString = NoUuid) =>
               /\ runs'[r] = IF session.ownerPk = NoKey
                             THEN End(IdleRun, "returned", "not logged in")
                             ELSE End(IdleRun, "error", "Missing uuidString")
               /\ runs'[r].pc \notin Awaiting
               /\ UNCHANGED <<session, chain, chainCode, chainNonce>>]_vars

\* sendUserOp has been called with a key and no uuid and has thrown, on a
\* page that shows the logged-out UI with its sendOp button disabled.
C29_Witness ==
    \E r \in RunIds :
       /\ runs[r].pc = "error" /\ runs[r].failure = "Missing uuidString"
       /\ session.ownerPk # NoKey /\ session.uuidString = NoUuid
       /\ LoggedOutShown /\ session.ui.sendOpDisabled

\* The globals of the session are null and its three items are not stored.
Cleared ==
    /\ session.ownerPk = NoKey
    /\ session.smartAccountAddress = ZeroAddress
    /\ session.uuidString = NoUuid
    /\ session.savedPk = NoItem /\ session.savedSa = NoItem /\ session.savedUuid = NoItem

\* This step is a click on logout: the logout button goes away.
LogoutStep == session.ui.logoutBtn /\ ~session'.ui.logoutBtn

\* This step is a login or a restore: a key is stored after it.
LoginStep == session'.savedPk # NoItem

\* C30: after logout the owner key, the smart-account address and the uuid
\* are null and their three storage entries are removed, and they stay so
\* until the next login or session restore, whatever runs of sendUserOp are
\* in flight; and no operation is submitted whose init payload names another
\* identity than the one its sender and its owner were taken from.
C30_LogoutIsFinal ==
    /\ [][(LogoutStep => Cleared') /\ (Cleared /\ ~Cleared' => LoginStep)]_vars
    /\ [](\A r \in RunIds :
            runs[r].pc = "submit_social" /\ runs[r].sent[1].initCode # EmptyBytes =>
               runs[r].sent[1].initCode = InitCodeAlways(FALSE, runs[r].uuidArg, runs[r].owner))

\* The address comes back after logout: nothing is stored, key and uuid are
\* null, the logged-out UI is shown, and the session holds an address.
C30_AddressBack ==
    /\ LoggedOutShown /\ boot = "ready"
    /\ session.ownerPk = NoKey /\ session.uuidString = NoUuid /\ session.savedPk = NoItem
    /\ session.smartAccountAddress # ZeroAddress

\* An operation is submitted whose sender is the account of the uuid the run
\* began with and whose init payload creates an account for the null uuid.
C30_MixedOperation ==
    \E r \in RunIds :
       /\ runs[r].pc = "submit_social"
       /\ runs[r].sent[1].initCode # EmptyBytes
       /\ runs[r].sent[1].initCode # InitCodeAlways(FALSE, runs[r].uuidArg, runs[r].owner)

====
